---- MODULE Spec2Model ----
(***************************************************************************)
(* Verification model of the Drishti-AX interaction engine                 *)
(* (agents/shadow_navigator.py): ShadowNavigatorAgent.execute with its     *)
(* fingerprint probe, shadow-piercing locator, click escalation ladder,    *)
(* typing engine and delta classifier; of the planner that audits its      *)
(* results (agents/mission_architect.py) and of the swarm orchestrator     *)
(* (main_agent_runner.py).                                                 *)
(*                                                                         *)
(*   Spec         the execute() state machine, one action per stage        *)
(*   SpecDelta    the delta classifier applied to every pair of            *)
(*                fingerprints                                             *)
(*   SpecMission  plan() of the architect alternating with execute()       *)
(*   SpecArchitect plan() alternating with execute() taken as a whole       *)
(*   SpecSwarm    Overmind.process_queue and the agents it deploys         *)
(*   SpecRegistry BlacklistRegistry.register_failure on sequences of entries*)
(*   SpecParser   NeuralParser.extract_plan on the replies of the model      *)
(*   SpecSessions execute() calls of the workers running side by side       *)
(*   SpecScore    calculate_drishti_score on every combination of arguments *)
(***************************************************************************)
EXTENDS Integers, Sequences, FiniteSets, TLC

VARIABLES
    state,          \* the AgentState dict handed to (and returned by) execute
    page,           \* what the browser page currently shows
    pc,             \* position inside execute(): idle / fp_pre / locate / act / settle / fp_post
    xpath,          \* local `xpath` of the running call
    action,         \* local `action` of the running call
    pre_state,      \* local `pre_state` (fingerprint before)
    post_state,     \* local `post_state` (fingerprint after)
    element,        \* local `element` (scope of the located handle, or NoElement)
    impact,         \* local `impact` (label from _calculate_delta)
    matches,        \* scopes of the page in which the xpath has a node (at lookup time)
    searched,       \* query sites _locate_robustly consulted, in order
    threw,          \* the consulted queries that threw
    attempts,       \* interaction steps the click / typing engine attempted, in order
    level_used,     \* click level that returned normally (0: none)
    events,         \* stages execute() went through in the last call, in order
    raised,         \* TRUE once an exception escaped execute()
    calls,          \* number of execute() calls entered
    returns,        \* number of execute() calls that returned a state
    last_known_url, \* MissionArchitectAgent.last_known_url
    plan_outcome,   \* how the last plan() call ended, and the number of plan() calls
    queue,          \* Overmind.queue: number of tasks not yet taken
    semaphore,      \* Overmind.semaphore: permits left
    workers,        \* the tasks created by process_queue, in order, with their position
    opc,            \* position inside Overmind.process_queue
    processed,      \* log entries handed to BlacklistRegistry.register_failure, in order
    raw_response,   \* the reply of the language model handed to NeuralParser.extract_plan
    parsed,         \* what extract_plan did with it (Unset: not called yet)
    missions,       \* HiveWorker.state of every concurrently running worker
    in_flight,      \* the workers whose execute() call has not returned yet
    score_args,     \* the arguments of a calculate_drishti_score call
    drishti_score,  \* what the call returned (Unset: not called yet)
    ai,             \* class LocalAI: its _instance and the instance's fields
    threads,        \* the threads that construct and use LocalAI, with their position
    targets,        \* batch_run: the flattened task list of targets.json
    state_file,     \* batch_run: the contents of batch_state.json
    batch,          \* batch_run: the locals of the running run_batch call
    spawned,        \* batch_run: the scout processes spawned so far, in order
    hive            \* HiveWorker.run: position in the loop, step_count, what the loop did

nav_vars == <<state, page, pc, xpath, action, pre_state, post_state, element, impact,
              matches, searched, threw, attempts, level_used, events, raised, calls,
              returns>>
mission_vars == <<last_known_url, plan_outcome>>
swarm_vars == <<queue, semaphore, workers, opc>>

registry_vars == <<processed>>
parser_vars == <<raw_response, parsed>>
session_vars == <<missions, in_flight>>
score_vars == <<score_args, drishti_score>>
singleton_vars == <<ai, threads>>
batch_vars == <<targets, state_file, batch, spawned>>
hive_vars == <<hive>>
service_vars == <<singleton_vars, batch_vars, hive_vars>>
unit_vars == <<registry_vars, parser_vars, session_vars, score_vars, service_vars>>

vars == <<nav_vars, mission_vars, swarm_vars, unit_vars>>

----------------------------------------------------------------------------
(* Bounds of the model *)

MaxCalls == 1           \* execute() calls per behaviour
MaxFrames == 2          \* child frames attached to the page
MaxShadowDepth == 2     \* nesting depth of shadow roots on the page
MaxInputs == 2          \* visible inputs a page can show
MaxPlans == 3           \* plan() calls per behaviour
MaxManifest == 4        \* tasks of the largest manifest

(* Program constants *)

NODE_THRESHOLD == 5
TEXT_THRESHOLD == 20
CLICK_LEVELS == 4
MAX_RETRIES == 3
AUDIT_WINDOW == 15
QUARANTINE_THRESHOLD == 2
MAX_CONCURRENCY == 2

----------------------------------------------------------------------------
(* Values *)

NULL == "NULL"
XPATHS == {"/html/body/header[1]/button"}
ActionTypes == {"CLICK", "TYPE", "SCROLL"}

Urls == {"u1", "u2"}
Titles == {"t1", "t2"}
NodeCounts == {0, NODE_THRESHOLD, NODE_THRESHOLD + 1, 2 * NODE_THRESHOLD + 2}
TextLens == {0, TEXT_THRESHOLD, TEXT_THRESHOLD + 1}
ScrollYs == {0, 1}

\* Every page content the fingerprint script can observe.
Pages ==
    [url : Urls, title : Titles, node_count : NodeCounts,
     visible_inputs : 0..MaxInputs, scroll_y : ScrollYs, text_len : TextLens]

\* Pages the browser shows while execute() runs (a slice of Pages).
NavPages ==
    {p \in Pages : /\ p.title = "t1" /\ p.scroll_y = 0 /\ p.text_len = 0
                   /\ p.node_count = 0 /\ p.visible_inputs <= 1
                   /\ (p.url = "u2" => p.visible_inputs = 0)}

\* Local not yet assigned.
Unset == [unset |-> TRUE]

EXHAUSTED_MSG == "ALL CLICK ESCALATION LEVELS EXHAUSTED."

\* Messages of the exceptions Playwright raises into the engines: a short one
\* and one longer than 100 characters (a timeout with its call log).
CLOSED_MSG == "Target page, context or browser has been closed"
TIMEOUT_MSG == "Timeout 30000ms exceeded. Call log: waiting for element to be visible, enabled and editable; element is not visible - retrying fill action"
TIMEOUT_MSG_100 == "Timeout 30000ms exceeded. Call log: waiting for element to be visible, enabled and editable; element "
PlaywrightErrors == {CLOSED_MSG, TIMEOUT_MSG}

\* str(e)[:100]
First100(msg) == IF msg = TIMEOUT_MSG THEN TIMEOUT_MSG_100 ELSE msg

----------------------------------------------------------------------------
(* _capture_fingerprint: one page.evaluate round trip; any exception is     *)
(* swallowed and replaced by the error dict {"url": page.url, "error": True} *)

CaptureFingerprint(p, evaluateFails) ==
    IF evaluateFails
    THEN [url |-> p.url, error |-> TRUE]
    ELSE p

\* dict.get('error'): the key is absent from a successful capture.
GetError(fp) == "error" \in DOMAIN fp

AllFingerprints ==
    {CaptureFingerprint(p, f) : p \in Pages, f \in BOOLEAN}

Abs(n) == IF n < 0 THEN -n ELSE n

\* Variant: the input-count rules are consulted before the URL rule.
CalculateDeltaInputsFirst(pre, post) ==
    IF GetError(post) \/ GetError(pre) THEN "UNKNOWN_STATE"
    ELSE IF post.visible_inputs > pre.visible_inputs THEN "INPUT_FIELD_APPEARED"
    ELSE IF post.visible_inputs < pre.visible_inputs THEN "UI_COLLAPSED"
    ELSE IF post.url # pre.url THEN "URL_NAVIGATED"
    ELSE IF post.title # pre.title THEN "TITLE_CHANGED"
    ELSE IF Abs(post.node_count - pre.node_count) > NODE_THRESHOLD THEN "DOM_MUTATED"
    ELSE IF Abs(post.text_len - pre.text_len) > TEXT_THRESHOLD THEN "CONTENT_UPDATED"
    ELSE "NO_CHANGE"

\* Variant: the text-length comparison is inverted.
CalculateDeltaTextInverted(pre, post) ==
    IF GetError(post) \/ GetError(pre) THEN "UNKNOWN_STATE"
    ELSE IF post.url # pre.url THEN "URL_NAVIGATED"
    ELSE IF post.visible_inputs > pre.visible_inputs THEN "INPUT_FIELD_APPEARED"
    ELSE IF post.visible_inputs < pre.visible_inputs THEN "UI_COLLAPSED"
    ELSE IF post.title # pre.title THEN "TITLE_CHANGED"
    ELSE IF Abs(post.node_count - pre.node_count) > NODE_THRESHOLD THEN "DOM_MUTATED"
    ELSE IF Abs(post.text_len - pre.text_len) <= TEXT_THRESHOLD THEN "CONTENT_UPDATED"
    ELSE "NO_CHANGE"

\* Variant: the URL comparison comes before the test of the error key.
CalculateDeltaUrlFirst(pre, post) ==
    IF post.url # pre.url THEN "URL_NAVIGATED"
    ELSE IF GetError(post) \/ GetError(pre) THEN "UNKNOWN_STATE"
    ELSE IF post.visible_inputs > pre.visible_inputs THEN "INPUT_FIELD_APPEARED"
    ELSE IF post.visible_inputs < pre.visible_inputs THEN "UI_COLLAPSED"
    ELSE IF post.title # pre.title THEN "TITLE_CHANGED"
    ELSE IF Abs(post.node_count - pre.node_count) > NODE_THRESHOLD THEN "DOM_MUTATED"
    ELSE IF Abs(post.text_len - pre.text_len) > TEXT_THRESHOLD THEN "CONTENT_UPDATED"
    ELSE "NO_CHANGE"

\* Variant: both thresholds are inclusive.
CalculateDeltaInclusive(pre, post) ==
    IF GetError(post) \/ GetError(pre) THEN "UNKNOWN_STATE"
    ELSE IF post.url # pre.url THEN "URL_NAVIGATED"
    ELSE IF post.visible_inputs > pre.visible_inputs THEN "INPUT_FIELD_APPEARED"
    ELSE IF post.visible_inputs < pre.visible_inputs THEN "UI_COLLAPSED"
    ELSE IF post.title # pre.title THEN "TITLE_CHANGED"
    ELSE IF Abs(post.node_count - pre.node_count) >= NODE_THRESHOLD THEN "DOM_MUTATED"
    ELSE IF Abs(post.text_len - pre.text_len) >= TEXT_THRESHOLD THEN "CONTENT_UPDATED"
    ELSE "NO_CHANGE"

(* _calculate_delta: heuristic impact classifier *)
CalculateDelta(pre, post) ==
    IF GetError(post) \/ GetError(pre) THEN "UNKNOWN_STATE"
    ELSE IF post.url # pre.url THEN "URL_NAVIGATED"
    ELSE IF post.visible_inputs > pre.visible_inputs THEN "INPUT_FIELD_APPEARED"
    ELSE IF post.visible_inputs < pre.visible_inputs THEN "UI_COLLAPSED"
    ELSE IF post.title # pre.title THEN "TITLE_CHANGED"
    ELSE IF Abs(post.node_count - pre.node_count) > NODE_THRESHOLD THEN "DOM_MUTATED"
    ELSE IF Abs(post.text_len - pre.text_len) > TEXT_THRESHOLD THEN "CONTENT_UPDATED"
    ELSE "NO_CHANGE"

----------------------------------------------------------------------------
(* _locate_robustly: main document, then page.frames, then the shadow-root *)
(* scan injected into the main document.                                   *)

\* Where a node matching the xpath can live.
MainScope == [kind |-> "main", idx |-> 0]
FrameScopeOf(i) == IF i = 0 THEN MainScope ELSE [kind |-> "frame", idx |-> i]
ShadowScope(d) == [kind |-> "shadow", idx |-> d]
Scopes ==
    {MainScope} \cup {FrameScopeOf(i) : i \in 1..MaxFrames}
                \cup {ShadowScope(d) : d \in 1..MaxShadowDepth}

NoElement == [kind |-> "none", idx |-> 0]

\* The queries the locator can issue. page.frames lists the main frame
\* first (index 0) and then the child frames in document order.
MainQuery == [kind |-> "main", idx |-> 0]
FrameQuery(i) == [kind |-> "frame", idx |-> i]
ShadowQuery == [kind |-> "shadow", idx |-> 0]
QuerySites == {MainQuery, ShadowQuery} \cup {FrameQuery(i) : i \in 0..MaxFrames}

\* `for frame in page.frames`: a frame whose query throws is skipped
\* (`except: continue`), the first frame with count() > 0 is returned.
RECURSIVE FrameSearch(_, _, _)
FrameSearch(i, m, thr) ==
    IF i > MaxFrames
    THEN [element |-> NoElement, searched |-> <<>>]
    ELSE IF FrameQuery(i) \notin thr /\ FrameScopeOf(i) \in m
         THEN [element |-> FrameScopeOf(i), searched |-> <<FrameQuery(i)>>]
         ELSE LET rest == FrameSearch(i + 1, m, thr)
              IN  [element |-> rest.element,
                   searched |-> <<FrameQuery(i)>> \o rest.searched]

\* Step 1 (one try block around the main query AND the frame loop): an
\* exception of the main query leaves the block, so the frame loop is skipped.
StandardFrameSearch(m, thr) ==
    IF MainQuery \in thr
    THEN [element |-> NoElement, searched |-> <<MainQuery>>]
    ELSE IF MainScope \in m
         THEN [element |-> MainScope, searched |-> <<MainQuery>>]
         ELSE LET fr == FrameSearch(0, m, thr)
              IN  [element |-> fr.element, searched |-> <<MainQuery>> \o fr.searched]

\* Shadow roots the injected script visits: those of the elements returned by
\* document.querySelectorAll('*'), i.e. hosts in the light DOM of the main
\* document. A host that itself sits inside a shadow root is not returned.
ScannedShadowRoots == {ShadowScope(1)}

\* Variant: the JSHandle is returned without the as_element() test, so the
\* handle of a null result counts as an element.
ShadowSearchNoAsElement(m, thr) ==
    IF ShadowQuery \in thr THEN NoElement
    ELSE IF MainScope \in m THEN MainScope
    ELSE IF ScannedShadowRoots \cap m # {}
         THEN CHOOSE s \in ScannedShadowRoots \cap m : TRUE
         ELSE [kind |-> "null_handle", idx |-> 0]

\* Step 2: evaluate_handle; the script first re-checks the document root.
ShadowSearch(m, thr) ==
    IF ShadowQuery \in thr THEN NoElement
    ELSE IF MainScope \in m THEN MainScope
    ELSE IF ScannedShadowRoots \cap m # {}
         THEN CHOOSE s \in ScannedShadowRoots \cap m : TRUE
         ELSE NoElement

Range(seq) == {seq[i] : i \in DOMAIN seq}
Last(seq) == seq[Len(seq)]

\* Variant: the evaluate_handle call of the shadow scan sits outside the try.
LocateShadowUnguarded == {MainQuery} \cup {FrameQuery(i) : i \in 0..MaxFrames}

\* Queries issued inside a try block of _locate_robustly: an exception of
\* such a query is caught there (`except Exception`, `except: continue`).
LocateGuarded == {MainQuery, ShadowQuery} \cup {FrameQuery(i) : i \in 0..MaxFrames}

\* m: scopes holding a match; thr: queries that throw. raised: an exception
\* left _locate_robustly.
LocateRobustly(m, thr) ==
    LET std == StandardFrameSearch(m, thr)
        res == IF std.element # NoElement
               THEN std
               ELSE [element |-> ShadowSearch(m, thr),
                     searched |-> std.searched \o <<ShadowQuery>>]
        escaped == (thr \cap Range(res.searched)) \ LocateGuarded
    IN  [element |-> IF escaped # {} THEN NoElement ELSE res.element,
         searched |-> res.searched,
         raised |-> escaped # {}]

\* Every lookup the environment can produce: the scopes holding a match, and
\* what the locator does for some set of throwing queries.

LocateRuns ==
    {[m |-> m, result |-> LocateRobustly(m, thr),
      threw |-> thr \cap Range(LocateRobustly(m, thr).searched)] :
        m \in SUBSET Scopes, thr \in SUBSET QuerySites}

----------------------------------------------------------------------------
(* _escalated_click_engine: levels 1..4, each in its own try block.        *)
(* fails[k] = TRUE when level k raises.                                    *)

\* One attempted step of an engine and whether it raised.
Attempt(s, r) == [step |-> s, raised |-> r]

\* Variant: the `return` after a successful level is missing.
RECURSIVE ClickFromNoReturn(_, _)
ClickFromNoReturn(k, fails) ==
    IF k > CLICK_LEVELS
    THEN [attempts |-> <<>>, level |-> 0, raised |-> FALSE, msg |-> ""]
    ELSE LET rest == ClickFromNoReturn(k + 1, fails)
         IN  IF k = CLICK_LEVELS /\ fails[k]
             THEN [attempts |-> <<Attempt(k, TRUE)>>, level |-> 0,
                   raised |-> TRUE, msg |-> EXHAUSTED_MSG]
             ELSE [rest EXCEPT !.attempts = <<Attempt(k, fails[k])>> \o @,
                               !.level = IF fails[k] THEN @
                                         ELSE IF @ = 0 THEN k ELSE @]

\* Variant: the failure of the last level is logged but not re-raised.
RECURSIVE ClickFromSwallowLast(_, _)
ClickFromSwallowLast(k, fails) ==
    IF k > CLICK_LEVELS
    THEN [attempts |-> <<>>, level |-> 0, raised |-> FALSE, msg |-> ""]
    ELSE IF ~fails[k]
         THEN [attempts |-> <<Attempt(k, FALSE)>>, level |-> k, raised |-> FALSE,
               msg |-> ""]
         ELSE LET rest == ClickFromSwallowLast(k + 1, fails)
              IN  [rest EXCEPT !.attempts = <<Attempt(k, TRUE)>> \o @]

\* Variant: a level that raises is not caught, the ladder does not escalate.
RECURSIVE ClickFromNoEscalation(_, _)
ClickFromNoEscalation(k, fails) ==
    IF k > CLICK_LEVELS \/ fails[k]
    THEN [attempts |-> IF k > CLICK_LEVELS THEN <<>> ELSE <<Attempt(k, TRUE)>>,
          level |-> 0, raised |-> TRUE, msg |-> TIMEOUT_MSG]
    ELSE [attempts |-> <<Attempt(k, FALSE)>>, level |-> k, raised |-> FALSE,
          msg |-> ""]

\* Levels k..4: level k is tried; if it raises the ladder escalates, the
\* failure of level 4 raises EXHAUSTED_MSG.
RECURSIVE ClickFrom(_, _)
ClickFrom(k, fails) ==
    IF k > CLICK_LEVELS
    THEN [attempts |-> <<>>, level |-> 0, raised |-> TRUE, msg |-> EXHAUSTED_MSG]
    ELSE IF ~fails[k]
         THEN [attempts |-> <<Attempt(k, FALSE)>>, level |-> k, raised |-> FALSE,
               msg |-> ""]
         ELSE LET rest == ClickFrom(k + 1, fails)
              IN  [rest EXCEPT !.attempts = <<Attempt(k, TRUE)>> \o @]

EscalatedClickEngine(fails) == ClickFrom(1, fails)

ClickFailures == [1..CLICK_LEVELS -> BOOLEAN]

(* _zenith_typing_engine. t.std: fill("")/type raises; t.force: the        *)
(* fallback fill(force=True) raises t.msg; t.hammer: the event-dispatch    *)
(* script raises; t.press: keyboard.press("Enter") raises.                 *)

\* Variant: the fallback fill(force=True) sits inside a try of its own.
ZenithTypingEngineGuardedFill(t) ==
    LET step1 == IF t.std
                 THEN <<Attempt("TYPE", TRUE), Attempt("FORCE_FILL", t.force)>>
                 ELSE <<Attempt("TYPE", FALSE)>>
        step23 == IF t.hammer
                  THEN <<Attempt("HAMMER", TRUE)>>
                  ELSE <<Attempt("HAMMER", FALSE), Attempt("ENTER", t.press)>>
    IN  [attempts |-> step1 \o step23, level |-> 0, raised |-> FALSE, msg |-> ""]

\* Variant: the event-dispatch script and the Enter press are not in a try.
ZenithTypingEngineHammerRaises(t) ==
    LET step1 == IF t.std
                 THEN <<Attempt("TYPE", TRUE), Attempt("FORCE_FILL", t.force)>>
                 ELSE <<Attempt("TYPE", FALSE)>>
        step23 == IF t.hammer
                  THEN <<Attempt("HAMMER", TRUE)>>
                  ELSE <<Attempt("HAMMER", FALSE), Attempt("ENTER", t.press)>>
    IN  IF t.std /\ t.force
        THEN [attempts |-> step1, level |-> 0, raised |-> TRUE, msg |-> t.msg]
        ELSE [attempts |-> step1 \o step23, level |-> 0,
              raised |-> t.hammer \/ t.press, msg |-> t.msg]

\* Step 1: fill("") and type(); if that raises, fill(force=True), whose
\* exception leaves the engine. Steps 2 and 3 share one try block: the
\* event-dispatch script, then keyboard.press("Enter"); their exception is
\* logged and not raised.
ZenithTypingEngine(t) ==
    LET step1 == IF t.std
                 THEN <<Attempt("TYPE", TRUE), Attempt("FORCE_FILL", t.force)>>
                 ELSE <<Attempt("TYPE", FALSE)>>
        step23 == IF t.hammer
                  THEN <<Attempt("HAMMER", TRUE)>>
                  ELSE <<Attempt("HAMMER", FALSE), Attempt("ENTER", t.press)>>
    IN  IF t.std /\ t.force
        THEN [attempts |-> step1, level |-> 0, raised |-> TRUE, msg |-> t.msg]
        ELSE [attempts |-> step1 \o step23, level |-> 0, raised |-> FALSE, msg |-> ""]

TypingFailures ==
    [std : BOOLEAN, force : BOOLEAN, hammer : BOOLEAN, press : BOOLEAN,
     msg : PlaywrightErrors]

----------------------------------------------------------------------------
(* The AgentState dict *)

\* semantic_map: {} until the architect commits a decision.
EmptyMap == [target_xpath |-> NULL, action_type |-> NULL]
IsEmptyMap(m) == m = EmptyMap

HistoryFailed(x) ==
    [kind |-> "FAILED", xpath |-> x, action |-> NULL,
     detail |-> "Element Vanished/Hidden during acquisition."]
HistoryCrash(x, msg) ==
    [kind |-> "CRASH", xpath |-> x, action |-> NULL, detail |-> First100(msg)]
HistoryResult(a, x, imp) ==
    [kind |-> "RESULT", xpath |-> x, action |-> a, detail |-> imp]

ErrLookupFailed(x) == [kind |-> "LOOKUP_FAILED", detail |-> x]
ErrNotImplemented(a) == [kind |-> "NOT_IMPLEMENTED", detail |-> a]
ErrNoChange(a, x) == [kind |-> "NO_CHANGE", detail |-> x]
ErrNavigatorFatal(msg) == [kind |-> "NAVIGATOR_FATAL", detail |-> msg]
ErrInitialNav(msg) == [kind |-> "INITIAL_NAV_FAILED", detail |-> msg]

StartPage ==
    [url |-> "u1", title |-> "t1", node_count |-> 0, visible_inputs |-> 0,
     scroll_y |-> 0, text_len |-> 0]

\* The state holds no 'hard_blacklist' key.
NoBlacklist == [absent |-> TRUE]

\* plan_outcome before the first plan() call.
NoPlan == [n |-> 0, branch |-> "none", target |-> NULL, audited |-> -1]

\* Variant: the try block only opens after the action engines have run.
TryBlockAfterAction == {"settle", "fp_post", "update"}

\* Stages of execute() that lie inside its try block.
TryBlockStages == {"fp_pre", "locate", "act", "settle", "fp_post", "update"}

\* The variables of the unit-level specifications, at rest.
RegistryIdle == processed = <<>>
ParserIdle == raw_response = Unset /\ parsed = Unset
SessionsIdle == missions = <<>> /\ in_flight = {}
ScoreIdle == score_args = Unset /\ drishti_score = Unset
SingletonIdle == ai = Unset /\ threads = <<>>
BatchIdle == targets = <<>> /\ state_file = Unset /\ batch = Unset /\ spawned = <<>>
HiveIdle == hive = Unset
ServiceIdle == SingletonIdle /\ BatchIdle /\ HiveIdle
UnitIdle == RegistryIdle /\ ParserIdle /\ SessionsIdle /\ ScoreIdle /\ ServiceIdle

Init ==
    /\ state \in {[status |-> "STARTED", history_steps |-> <<>>, error_log |-> <<>>,
                   semantic_map |-> EmptyMap, current_url |-> "u1",
                   last_action_impact |-> NULL, target_url |-> t,
                   hard_blacklist |-> NoBlacklist] : t \in {NULL, "u1"}}
    /\ page = StartPage
    /\ pc = "idle"
    /\ xpath = NULL
    /\ action = NULL
    /\ pre_state = Unset
    /\ post_state = Unset
    /\ element = NoElement
    /\ impact = NULL
    /\ matches = {}
    /\ searched = <<>>
    /\ threw = {}
    /\ attempts = <<>>
    /\ level_used = 0
    /\ events = <<>>
    /\ raised = FALSE
    /\ calls = 0
    /\ returns = 0
    /\ last_known_url = NULL
    /\ plan_outcome = NoPlan
    /\ queue = 0
    /\ semaphore = MAX_CONCURRENCY
    /\ workers = <<>>
    /\ opc = "loop"
    /\ UnitIdle

\* Locals of a fresh call.
FreshLocals ==
    /\ pre_state' = Unset
    /\ post_state' = Unset
    /\ element' = NoElement
    /\ impact' = NULL
    /\ matches' = {}
    /\ searched' = <<>>
    /\ threw' = {}
    /\ attempts' = <<>>
    /\ level_used' = 0

CanCall == pc = "idle" /\ ~raised /\ calls < MaxCalls

IsColdStart ==
    /\ IsEmptyMap(state.semantic_map)
    /\ state.target_url # NULL
    /\ state.status = "STARTED"

\* The architect commits a NAVIGATE decision into semantic_map. The locals of
\* the previous execute() call are gone by then.
PlanCommit(x, a) ==
    /\ CanCall
    /\ state' = [state EXCEPT !.semantic_map = [target_xpath |-> x, action_type |-> a],
                              !.status = "NAVIGATING"]
    /\ FreshLocals
    /\ xpath' = NULL
    /\ action' = NULL
    /\ events' = <<>>
    /\ UNCHANGED <<page, pc, raised, calls, returns>>
    /\ UNCHANGED <<mission_vars, swarm_vars, unit_vars>>

\* execute(), stage 1: cold start navigation.
ExecuteColdStart ==
    /\ CanCall
    /\ IsColdStart
    /\ \/ \E p \in NavPages :
            /\ page' = p
            /\ state' = [state EXCEPT !.current_url = p.url, !.status = "ANALYZING"]
       \/ \E msg \in PlaywrightErrors :
            /\ page' = page
            /\ state' = [state EXCEPT !.status = "FAILED",
                                      !.error_log = Append(@, ErrInitialNav(msg))]
    /\ FreshLocals
    /\ xpath' = NULL
    /\ action' = NULL
    /\ events' = <<"GOTO">>
    /\ calls' = calls + 1
    /\ returns' = returns + 1
    /\ UNCHANGED <<pc, raised>>
    /\ UNCHANGED <<mission_vars, swarm_vars, unit_vars>>

\* execute(), stage 2 with a null xpath: back to planning.
ExecuteNoTarget ==
    /\ CanCall
    /\ ~IsColdStart
    /\ state.semantic_map.target_xpath = NULL
    /\ state' = [state EXCEPT !.status = "PLANNING"]
    /\ FreshLocals
    /\ xpath' = NULL
    /\ action' = IF state.semantic_map.action_type = NULL
                 THEN "CLICK" ELSE state.semantic_map.action_type
    /\ events' = <<>>
    /\ calls' = calls + 1
    /\ returns' = returns + 1
    /\ UNCHANGED <<page, pc, raised>>
    /\ UNCHANGED <<mission_vars, swarm_vars, unit_vars>>

\* execute(), stage 2 with a target: enter the try block.
ExecuteEnter ==
    /\ CanCall
    /\ ~IsColdStart
    /\ state.semantic_map.target_xpath # NULL
    /\ xpath' = state.semantic_map.target_xpath
    /\ action' = IF state.semantic_map.action_type = NULL
                 THEN "CLICK" ELSE state.semantic_map.action_type
    /\ FreshLocals
    /\ events' = <<>>
    /\ calls' = calls + 1
    /\ pc' = "fp_pre"
    /\ UNCHANGED <<state, page, raised, returns>>
    /\ UNCHANGED <<mission_vars, swarm_vars, unit_vars>>

\* 1. pre_state = await self._capture_fingerprint(page)
CaptureBefore ==
    /\ pc = "fp_pre"
    /\ \E evaluateFails \in BOOLEAN :
           pre_state' = CaptureFingerprint(page, evaluateFails)
    /\ events' = Append(events, "FP_PRE")
    /\ pc' = "locate"
    /\ UNCHANGED <<state, page, xpath, action, post_state, element, impact, matches,
                   searched, threw, attempts, level_used, raised, calls, returns>>
    /\ UNCHANGED <<mission_vars, swarm_vars, unit_vars>>

\* Variant: the exception handler logs the error but adds no CRASH entry to
\* history_steps.
ThrowNoHistory(stage, msg) ==
    IF stage \in TryBlockStages
    THEN /\ state' = [state EXCEPT
                !.error_log = Append(@, ErrNavigatorFatal(msg)),
                !.status = "PLANNING"]
         /\ returns' = returns + 1
         /\ pc' = "idle"
         /\ UNCHANGED raised
    ELSE /\ raised' = TRUE
         /\ pc' = "idle"
         /\ UNCHANGED <<state, returns>>

\* `except Exception as e` of execute(): an exception raised at a stage inside
\* the try block is logged as a CRASH; one raised outside it leaves execute().
Throw(stage, msg) ==
    IF stage \in TryBlockStages
    THEN /\ state' = [state EXCEPT
                !.history_steps = Append(@, HistoryCrash(xpath, msg)),
                !.error_log = Append(@, ErrNavigatorFatal(msg)),
                !.status = "PLANNING"]
         /\ returns' = returns + 1
         /\ pc' = "idle"
         /\ UNCHANGED raised
    ELSE /\ raised' = TRUE
         /\ pc' = "idle"
         /\ UNCHANGED <<state, returns>>

\* Variant: a failed lookup is repeated, up to MAX_RETRIES lookups per call.
LocateRetrying ==
    /\ pc = "locate"
    /\ \E run \in LocateRuns :
         LET r == run.result
         IN  /\ matches' = run.m
             /\ searched' = r.searched
             /\ threw' = run.threw
             /\ element' = r.element
             /\ IF r.raised
                THEN Throw("locate", CLOSED_MSG)
                ELSE IF r.element = NoElement /\ Len(events) < MAX_RETRIES
                THEN /\ pc' = "locate"
                     /\ UNCHANGED <<state, returns, raised>>
                ELSE IF r.element = NoElement
                THEN /\ state' = [state EXCEPT
                            !.history_steps = Append(@, HistoryFailed(xpath)),
                            !.error_log = Append(@, ErrLookupFailed(xpath)),
                            !.status = "PLANNING"]
                     /\ pc' = "idle"
                     /\ returns' = returns + 1
                     /\ UNCHANGED raised
                ELSE /\ pc' = "act"
                     /\ UNCHANGED <<state, returns, raised>>
    /\ events' = Append(events, "LOCATE")
    /\ UNCHANGED <<page, xpath, action, pre_state, post_state, impact, attempts,
                   level_used, calls>>
    /\ UNCHANGED <<mission_vars, swarm_vars, unit_vars>>

\* 2. element = await self._locate_robustly(page, xpath); `if not element`
\* records the acquisition failure and returns.
Locate ==
    /\ pc = "locate"
    /\ \E run \in LocateRuns :
         LET r == run.result
         IN  /\ matches' = run.m
             /\ searched' = r.searched
             /\ threw' = run.threw
             /\ element' = r.element
             /\ IF r.raised
                THEN Throw("locate", CLOSED_MSG)
                ELSE IF r.element = NoElement
                THEN /\ state' = [state EXCEPT
                            !.history_steps = Append(@, HistoryFailed(xpath)),
                            !.error_log = Append(@, ErrLookupFailed(xpath)),
                            !.status = "PLANNING"]
                     /\ pc' = "idle"
                     /\ returns' = returns + 1
                     /\ UNCHANGED raised
                ELSE /\ pc' = "act"
                     /\ UNCHANGED <<state, returns, raised>>
    /\ events' = Append(events, "LOCATE")
    /\ UNCHANGED <<page, xpath, action, pre_state, post_state, impact, attempts,
                   level_used, calls>>
    /\ UNCHANGED <<mission_vars, swarm_vars, unit_vars>>

\* matches, searched and threw observe the lookup; they are dropped once execute()
\* moves on with the element handle.
LookupForgotten ==
    /\ matches' = {}
    /\ searched' = <<>>
    /\ threw' = {}

\* 3. the engine of the action type has run with outcome r.
ActOutcome(r) ==
    /\ attempts' = r.attempts
    /\ level_used' = r.level
    /\ IF r.raised
       THEN Throw("act", r.msg)
       ELSE /\ pc' = "settle"
            /\ UNCHANGED <<state, raised, returns>>
    /\ events' = Append(events, "ACT")
    /\ LookupForgotten
    /\ UNCHANGED <<page, xpath, action, pre_state, post_state, element, impact, calls>>
    /\ UNCHANGED <<mission_vars, swarm_vars, unit_vars>>

ActClick ==
    /\ pc = "act"
    /\ action = "CLICK"
    /\ \E fails \in ClickFailures : ActOutcome(EscalatedClickEngine(fails))

ActType ==
    /\ pc = "act"
    /\ action = "TYPE"
    /\ \E t \in TypingFailures : ActOutcome(ZenithTypingEngine(t))

\* else: logger.error("Unsupported action"), error_log entry, carry on.
ActUnsupported ==
    /\ pc = "act"
    /\ action \notin {"CLICK", "TYPE"}
    /\ state' = [state EXCEPT !.error_log = Append(@, ErrNotImplemented(action))]
    /\ events' = Append(events, "ACT")
    /\ pc' = "settle"
    /\ LookupForgotten
    /\ UNCHANGED <<page, xpath, action, pre_state, post_state, element, impact,
                   attempts, level_used, raised, calls, returns>>
    /\ UNCHANGED <<mission_vars, swarm_vars, unit_vars>>

\* Variant: the after fingerprint is taken without the settle delay.
SettleSkipped ==
    /\ pc = "settle"
    /\ pc' = "fp_post"
    /\ UNCHANGED <<state, page, xpath, action, pre_state, post_state, element, impact,
                   matches, searched, threw, attempts, level_used, events, raised,
                   calls, returns>>
    /\ UNCHANGED <<mission_vars, swarm_vars, unit_vars>>

\* 4. await asyncio.sleep(SETTLE_TIME): the page reacts meanwhile.
Settle ==
    /\ pc = "settle"
    /\ page' \in NavPages
    /\ events' = Append(events, "SETTLE")
    /\ pc' = "fp_post"
    /\ UNCHANGED <<state, xpath, action, pre_state, post_state, element, impact,
                   matches, searched, threw, attempts, level_used, raised, calls, returns>>
    /\ UNCHANGED <<mission_vars, swarm_vars, unit_vars>>

\* 5.-7. after fingerprint, delta, screenshot (errors ignored), state update.
CaptureAfter ==
    /\ pc = "fp_post"
    /\ \E evaluateFails \in BOOLEAN :
         LET post == CaptureFingerprint(page, evaluateFails)
             imp == CalculateDelta(pre_state, post)
         IN  /\ post_state' = post
             /\ impact' = imp
             /\ state' = [state EXCEPT
                    !.history_steps = Append(@, HistoryResult(action, xpath, imp)),
                    !.current_url = page.url,
                    !.last_action_impact = imp,
                    !.error_log = IF imp = "NO_CHANGE"
                                  THEN Append(@, ErrNoChange(action, xpath)) ELSE @,
                    !.status = "PLANNING"]
    /\ events' = events \o <<"FP_POST", "CLASSIFY">>
    /\ pc' = "idle"
    /\ returns' = returns + 1
    /\ UNCHANGED <<page, xpath, action, pre_state, element, matches, searched, threw,
                   attempts, level_used, raised, calls>>
    /\ UNCHANGED <<mission_vars, swarm_vars, unit_vars>>

Next ==
    \/ \E x \in XPATHS \cup {NULL}, a \in ActionTypes : PlanCommit(x, a)
    \/ ExecuteColdStart
    \/ ExecuteNoTarget
    \/ ExecuteEnter
    \/ CaptureBefore
    \/ Locate
    \/ ActClick
    \/ ActType
    \/ ActUnsupported
    \/ Settle
    \/ CaptureAfter

Spec == Init /\ [][Next]_vars

----------------------------------------------------------------------------
(* BlacklistRegistry (mission_architect.py). Log entries are kept as       *)
(* records; the operators below give, for each kind of entry, what the     *)
(* substring tests and regular expressions of the code yield on the text   *)
(* the entry stands for.                                                   *)

\* _initialize_state: the structure created when the state has no blacklist.
EmptyBlacklist ==
    [xpaths |-> {}, ids |-> {}, containers |-> <<>>, quarantine |-> {}]

InitializeState(s) ==
    IF s.hard_blacklist = NoBlacklist THEN [s EXCEPT !.hard_blacklist = EmptyBlacklist]
    ELSE s

\* Xpaths the registry is exercised with: two under header[1] (the ones of
\* the self-test), one under another container, one outside /html/body.
RegistryXPaths ==
    XPATHS \cup {"/html/body/header[1]/div/input", "/html/body/main[1]/a", "//div"}

NO_CHANGE_TAIL == " executed successfully but caused NO DETECTABLE STATE CHANGE"

\* The entries of the self-test: "Action FAILED on <xpath>" (the text ends
\* with the xpath).
SelfTestEntry(x) ==
    [kind |-> "ACTION_FAILED", xpath |-> x, action |-> NULL, detail |-> NULL]

\* Text of a history entry up to the end of what the target regex can match:
\* "<KIND> on <xpath> -> ...". The character class of the regex holds the
\* space and the hyphen but not ">", so the match runs through " -".
\* Text of the NO_CHANGE warning: "Action '<a>' on <xpath> executed
\* successfully but caused NO DETECTABLE STATE CHANGE." (ended by the full stop).
\* The other error entries hold no "on", "XPath:", "Path:" or "target"
\* directly followed by "/" or "(".
ExtractTarget(entry) ==
    IF entry.kind \in {"FAILED", "CRASH", "RESULT"}
    THEN entry.xpath \o " -"
    ELSE IF entry.kind = "NO_CHANGE"
    THEN entry.detail \o NO_CHANGE_TAIL
    ELSE IF entry.kind = "ACTION_FAILED"
    THEN entry.xpath
    ELSE NULL

\* The /html/body/<tag>[n] prefix of an xpath of the model.
BodyContainer(b) ==
    CASE b \in {"/html/body/header[1]/button", "/html/body/header[1]/div/input"}
             -> "/html/body/header[1]"
      [] b = "/html/body/main[1]/a" -> "/html/body/main[1]"
      [] OTHER -> NULL

\* The strings register_failure can extract for the xpath b.
ExtractedForms(b) == {b, b \o " -", b \o NO_CHANGE_TAIL}

\* re.search(r'(/html/body/[a-z]+\[\d+\])', xpath) on the strings of the model:
\* the text after the xpath holds no second "/html/body/".
ContainerOf(x) ==
    IF \E b \in RegistryXPaths : x \in ExtractedForms(b)
    THEN BodyContainer(CHOOSE b \in RegistryXPaths : x \in ExtractedForms(b))
    ELSE NULL

\* re.search(r'@id=[\"\']([^\"\']+)[\"\']', xpath): no xpath of the model
\* carries an @id predicate.
IdOf(x) == NULL

\* xpath.startswith(q_branch) for an xpath of the model and a container.
StartsWith(x, q) == ContainerOf(x) = q

CountOf(bl, c) == IF c \in DOMAIN bl.containers THEN bl.containers[c] ELSE 0

\* Variant: the container is quarantined only when the count exceeds the
\* threshold.
RegisterFailureLateQuarantine(bl, entry) ==
    IF ExtractTarget(entry) = NULL THEN bl
    ELSE LET x == ExtractTarget(entry)
             c == ContainerOf(x)
             n == CountOf(bl, c) + 1
         IN  [xpaths |-> bl.xpaths \cup {x},
              ids |-> bl.ids,
              containers |-> IF c = NULL THEN bl.containers
                             ELSE [k \in DOMAIN bl.containers \cup {c} |->
                                      IF k = c THEN n ELSE bl.containers[k]],
              quarantine |-> IF c # NULL /\ n > QUARANTINE_THRESHOLD
                             THEN bl.quarantine \cup {c} ELSE bl.quarantine]

\* register_failure: ban the extracted xpath, its id, and count the failure
\* against its container; the container is quarantined from the second count.
RegisterFailure(bl, entry) ==
    IF ExtractTarget(entry) = NULL THEN bl
    ELSE LET x == ExtractTarget(entry)
             c == ContainerOf(x)
             n == CountOf(bl, c) + 1
         IN  [xpaths |-> bl.xpaths \cup {x},
              ids |-> IF IdOf(x) = NULL THEN bl.ids ELSE bl.ids \cup {IdOf(x)},
              containers |-> IF c = NULL THEN bl.containers
                             ELSE [k \in DOMAIN bl.containers \cup {c} |->
                                      IF k = c THEN n ELSE bl.containers[k]],
              quarantine |-> IF c # NULL /\ n >= QUARANTINE_THRESHOLD
                             THEN bl.quarantine \cup {c} ELSE bl.quarantine]

\* check_toxicity(xpath) without attributes: rule 1 (banned xpath) and rule 3
\* (inside a quarantined container).
CheckToxicity(bl, x) ==
    \/ x \in bl.xpaths
    \/ \E q \in bl.quarantine : StartsWith(x, q)

\* The reason check_toxicity returns with a positive verdict.
ToxicityReason(bl, x) ==
    IF x \in bl.xpaths THEN "XPath " \o x \o " is explicitly blacklisted."
    ELSE "Target is located in Quarantined Zone: "
             \o (CHOOSE q \in bl.quarantine : StartsWith(x, q))

\* purge
Purge(bl) == EmptyBlacklist

(* TacticalValidator.validate_plan *)
ValidPhases ==
    {"NAVIGATE", "ANALYZE_DOM", "COMPLETE", "ABORT", "FIX_ISSUES", "VERIFY_FIX"}

\* Variant: the validator without its blacklist check.
ValidatePlanNoBlacklist(bl, plan) ==
    IF plan.next_phase \notin ValidPhases
    THEN [valid |-> FALSE, reason |-> "Invalid Phase: " \o plan.next_phase]
    ELSE IF plan.next_phase = "NAVIGATE" /\ plan.target_xpath = NULL
    THEN [valid |-> FALSE,
          reason |-> "Navigation phase requested but no Target XPath provided."]
    ELSE [valid |-> TRUE, reason |-> "Plan Validated"]

ValidatePlan(bl, plan) ==
    IF plan.next_phase \notin ValidPhases
    THEN [valid |-> FALSE, reason |-> "Invalid Phase: " \o plan.next_phase]
    ELSE IF plan.next_phase = "NAVIGATE" /\ plan.target_xpath = NULL
    THEN [valid |-> FALSE,
          reason |-> "Navigation phase requested but no Target XPath provided."]
    ELSE IF plan.target_xpath # NULL /\ CheckToxicity(bl, plan.target_xpath)
    THEN [valid |-> FALSE, reason |-> "Safety Veto: " \o ToxicityReason(bl, plan.target_xpath)]
    ELSE [valid |-> TRUE, reason |-> "Plan Validated"]

(* MissionArchitectAgent.plan *)

HistorySuccess(url) ==
    [kind |-> "SUCCESS", xpath |-> NULL, action |-> NULL, detail |-> url]
ErrVeto(reason) == [kind |-> "ARCHITECT_VETO", detail |-> reason]

\* "Sensor Error: <e.toString()>": the text of whatever the scan script caught
\* in the page. One text without and one with a fracture word.
SCAN_ERROR_MSG == "TypeError: Cannot read properties of null (reading 'childNodes')"
SCAN_FRACTURE_MSG == "Error: session timeout"
ErrSensor(msg) == [kind |-> "SENSOR_ERROR", detail |-> msg]

\* URLs holding one of the victory tokens ("search?", "results", "q=", ...);
\* the goal of the mission names a search.
VictoryUrls == {"u2"}

\* any(k in last_error.lower() for k in ["vanished","lost","crash","timeout"])
HasFractureWord(e) ==
    \/ e.kind \in {"NAVIGATOR_FATAL", "INITIAL_NAV_FAILED"} /\ e.detail = TIMEOUT_MSG
    \/ e.kind = "SENSOR_ERROR" /\ e.detail = SCAN_FRACTURE_MSG

\* any(k in entry.upper() for k in ["NO_CHANGE","CRASH","FAILED",
\* "NO VISIBLE EFFECT","TIMEOUT"])
AuditMarked(entry) ==
    \/ entry.kind \in {"FAILED", "CRASH", "LOOKUP_FAILED", "INITIAL_NAV_FAILED"}
    \/ entry.kind = "RESULT" /\ entry.detail = "NO_CHANGE"
    \/ entry.kind = "NAVIGATOR_FATAL" /\ entry.detail = TIMEOUT_MSG
    \/ entry.kind = "SENSOR_ERROR" /\ entry.detail = SCAN_FRACTURE_MSG

\* seq[-n:]
LastN(seq, n) ==
    IF Len(seq) <= n THEN seq ELSE SubSeq(seq, Len(seq) - n + 1, Len(seq))

\* audit_window = history[-15:] + error_log[-15:]
AuditWindow(s) ==
    LastN(s.history_steps, AUDIT_WINDOW) \o LastN(s.error_log, AUDIT_WINDOW)

\* for entry in audit_window: register the marked entries, in order.
RECURSIVE ForensicAudit(_, _, _)
ForensicAudit(bl, window, i) ==
    IF i > Len(window) THEN bl
    ELSE ForensicAudit(IF AuditMarked(window[i])
                       THEN RegisterFailure(bl, window[i]) ELSE bl,
                       window, i + 1)

\* _map_status
MapStatus(phase) ==
    CASE phase = "NAVIGATE" -> "NAVIGATING"
      [] phase = "ANALYZE_DOM" -> "ANALYZING"
      [] phase = "FIX_ISSUES" -> "FIXING"
      [] phase = "VERIFY_FIX" -> "VERIFYING"
      [] phase = "COMPLETE" -> "COMPLETED"
      [] OTHER -> "FAILED"

\* Plans NeuralParser.extract_plan hands to the validator.
Plans ==
    [next_phase : {"NAVIGATE", "ANALYZE_DOM", "COMPLETE"},
     target_xpath : XPATHS \cup {NULL},
     action_type : ActionTypes]

\* What extract_plan returns when the reply is valid JSON but not an object
\* (strategy 1 returns whatever json.loads yields): a value without .get.
NonObjectPlan == [nonobject |-> TRUE]
NO_GET_MSG == "'list' object has no attribute 'get'"
ErrArchitect(msg) == [kind |-> "ARCHITECT_ERROR", detail |-> msg]

\* audited: the number of history entries the forensic audit of this call
\* had before it (-1: the call returned before its audit).
Outcome(branch, target, audited) ==
    [n |-> plan_outcome.n + 1, branch |-> branch, target |-> target,
     audited |-> audited]

\* One plan() call, of at most max: what it does to the state and to the
\* architect.
PlanCallWithin(max) ==
    /\ pc = "idle"
    /\ ~raised
    /\ plan_outcome.n < max
    /\ state.status \notin {"COMPLETED", "FAILED"}
    /\ LET s0 == InitializeState(state)
           bl == s0.hard_blacklist
       IN  IF s0.current_url \in VictoryUrls
           THEN \* 2. victory check
                /\ state' = [s0 EXCEPT
                       !.status = "COMPLETED",
                       !.history_steps = Append(@, HistorySuccess(s0.current_url))]
                /\ plan_outcome' = Outcome("victory", NULL, -1)
                /\ UNCHANGED last_known_url
           ELSE IF s0.error_log # <<>> /\ HasFractureWord(Last(s0.error_log))
           THEN \* 3. context integrity check
                /\ state' = [s0 EXCEPT !.status = "ANALYZING"]
                /\ plan_outcome' = Outcome("fracture", NULL, -1)
                /\ UNCHANGED last_known_url
           ELSE IF last_known_url # NULL /\ last_known_url # s0.current_url
           THEN \* 4. context drift check
                /\ state' = [s0 EXCEPT !.status = "ANALYZING",
                                       !.hard_blacklist = Purge(bl)]
                /\ plan_outcome' = Outcome("drift", NULL, -1)
                /\ last_known_url' = s0.current_url
           ELSE \* 5. forensic audit, 8.-11. inference, validation, commit
                LET audited == ForensicAudit(bl, AuditWindow(s0), 1)
                    s1 == [s0 EXCEPT !.hard_blacklist = audited]
                IN  /\ last_known_url' = s0.current_url
                    /\ \E plan \in Plans \cup {NonObjectPlan} :
                         LET v == ValidatePlan(audited, plan)
                         IN  IF plan = NonObjectPlan
                             THEN \* plan.get raises inside the try block
                                  /\ state' = [s1 EXCEPT
                                        !.error_log = Append(@, ErrArchitect(NO_GET_MSG)),
                                        !.status = "ANALYZING"]
                                  /\ plan_outcome' = Outcome("error", NULL,
                                                          Len(s0.history_steps))
                             ELSE IF ~v.valid
                             THEN /\ state' = [s1 EXCEPT
                                        !.error_log = Append(@, ErrVeto(v.reason)),
                                        !.status = "ANALYZING"]
                                  /\ plan_outcome' = Outcome("veto", plan.target_xpath,
                                                          Len(s0.history_steps))
                             ELSE /\ state' = [s1 EXCEPT
                                        !.semantic_map =
                                            IF plan.next_phase = "NAVIGATE"
                                            THEN [target_xpath |-> plan.target_xpath,
                                                  action_type |-> plan.action_type]
                                            ELSE @,
                                        !.status = MapStatus(plan.next_phase)]
                                  /\ plan_outcome' = Outcome("commit", plan.target_xpath,
                                                          Len(s0.history_steps))

PlanCall == PlanCallWithin(MaxPlans)

\* One plan() call. The run loop of the worker stops calling plan() once the
\* status is COMPLETED or FAILED.
ArchitectPlan ==
    /\ PlanCall
    /\ FreshLocals
    /\ xpath' = NULL
    /\ action' = NULL
    /\ events' = <<>>
    /\ UNCHANGED <<page, pc, raised, calls, returns, swarm_vars, unit_vars>>

NextMission ==
    \/ ArchitectPlan
    \/ ExecuteColdStart
    \/ ExecuteNoTarget
    \/ ExecuteEnter
    \/ CaptureBefore
    \/ Locate
    \/ ActClick
    \/ ActType
    \/ ActUnsupported
    \/ Settle
    \/ CaptureAfter

SpecMission == Init /\ [][NextMission]_vars

(* SpecArchitect: plan() alternating with the results execute() hands back. *)
(* The worker's loop calls plan(), then execute() at most once, and stops    *)
(* when the status is COMPLETED or FAILED; execute() is taken as a whole.    *)

ImpactLabels ==
    {"UNKNOWN_STATE", "URL_NAVIGATED", "INPUT_FIELD_APPEARED", "UI_COLLAPSED",
     "TITLE_CHANGED", "DOM_MUTATED", "CONTENT_UPDATED", "NO_CHANGE"}

ColdStart(s) ==
    IsEmptyMap(s.semantic_map) /\ s.target_url # NULL /\ s.status = "STARTED"

\* Locals `xpath` and `action` of a call on the state s.
TargetOf(s) == IF ColdStart(s) THEN NULL ELSE s.semantic_map.target_xpath
ActionOf(s) ==
    IF ColdStart(s) THEN NULL
    ELSE IF s.semantic_map.action_type = NULL THEN "CLICK"
    ELSE s.semantic_map.action_type

\* The label _calculate_delta can give when the page ends at url u: a url
\* change between two captured fingerprints is URL_NAVIGATED and nothing
\* else; a failed capture gives UNKNOWN_STATE at any url.
LabelsAt(s, u) ==
    IF u # s.current_url THEN {"UNKNOWN_STATE", "URL_NAVIGATED"}
    ELSE ImpactLabels \ {"URL_NAVIGATED"}

\* The states execute() can return for the state s it is handed, on a site
\* with the pages urls.
ExecuteResultsAt(s, urls) ==
    IF ColdStart(s)
    THEN {[s EXCEPT !.current_url = u, !.status = "ANALYZING"] : u \in urls}
         \cup {[s EXCEPT !.status = "FAILED",
                         !.error_log = Append(@, ErrInitialNav(msg))] :
                   msg \in PlaywrightErrors}
    ELSE IF TargetOf(s) = NULL
    THEN {[s EXCEPT !.status = "PLANNING"]}
    ELSE LET x == TargetOf(s)
             a == ActionOf(s)
             acted == IF a \in {"CLICK", "TYPE"} THEN s
                      ELSE [s EXCEPT !.error_log = Append(@, ErrNotImplemented(a))]
         IN  {[s EXCEPT !.history_steps = Append(@, HistoryFailed(x)),
                        !.error_log = Append(@, ErrLookupFailed(x)),
                        !.status = "PLANNING"]}
             \cup {[s EXCEPT !.history_steps = Append(@, HistoryCrash(x, msg)),
                             !.error_log = Append(@, ErrNavigatorFatal(msg)),
                             !.status = "PLANNING"] :
                       msg \in PlaywrightErrors \cup {EXHAUSTED_MSG}}
             \cup UNION {{[acted EXCEPT
                              !.history_steps = Append(@, HistoryResult(a, x, imp)),
                              !.current_url = u,
                              !.last_action_impact = imp,
                              !.error_log = IF imp = "NO_CHANGE"
                                            THEN Append(@, ErrNoChange(a, x)) ELSE @,
                              !.status = "PLANNING"] :
                             imp \in LabelsAt(s, u)} : u \in urls}

ExecuteResults(s) == ExecuteResultsAt(s, Urls)

\* One execute() call, from entry to return. The loop of the worker calls it
\* after plan(), never twice in a row (action is NULL after a plan()).
ExecuteReturns ==
    /\ CanCall
    /\ plan_outcome.n > 0 \/ ColdStart(state)
    /\ action = NULL
    /\ state.status \notin {"COMPLETED", "FAILED"}
    /\ state' \in ExecuteResults(state)
    /\ xpath' = TargetOf(state)
    /\ action' = IF ColdStart(state) THEN "WAIT" ELSE ActionOf(state)
    /\ calls' = calls + 1
    /\ returns' = returns + 1
    /\ UNCHANGED <<page, pc, pre_state, post_state, element, impact,
                   matches, searched, threw, attempts, level_used, events, raised>>
    /\ UNCHANGED <<mission_vars, swarm_vars, unit_vars>>

NextArchitect == ArchitectPlan \/ ExecuteReturns

SpecArchitect == Init /\ [][NextArchitect]_vars

(* SpecDrift: the same alternation on a site with a second page that is no  *)
(* victory page, long enough for a failure, a navigation to that page, the   *)
(* plan() call that purges the registry and the plan() calls after it.       *)

MaxDriftPlans == 5      \* plan() calls per behaviour
MaxDriftCalls == 2      \* execute() calls per behaviour
DriftUrls == Urls \cup {"u3"}

DriftPlan ==
    /\ PlanCallWithin(MaxDriftPlans)
    /\ FreshLocals
    /\ xpath' = NULL
    /\ action' = NULL
    /\ events' = <<>>
    /\ UNCHANGED <<page, pc, raised, calls, returns, swarm_vars, unit_vars>>

DriftExecute ==
    /\ pc = "idle" /\ ~raised /\ calls < MaxDriftCalls
    /\ plan_outcome.n > 0 \/ ColdStart(state)
    /\ action = NULL
    /\ state.status \notin {"COMPLETED", "FAILED"}
    /\ state' \in ExecuteResultsAt(state, DriftUrls)
    /\ xpath' = TargetOf(state)
    /\ action' = IF ColdStart(state) THEN "WAIT" ELSE ActionOf(state)
    /\ calls' = calls + 1
    /\ returns' = returns + 1
    /\ UNCHANGED <<page, pc, pre_state, post_state, element, impact,
                   matches, searched, threw, attempts, level_used, events, raised>>
    /\ UNCHANGED <<mission_vars, swarm_vars, unit_vars>>

NextDrift == DriftPlan \/ DriftExecute

SpecDrift == Init /\ [][NextDrift]_vars


----------------------------------------------------------------------------
(* SpecSwarm: Overmind.process_queue and _deploy_agent (main_agent_runner). *)
(* All coroutines run on one event loop: the tasks created by              *)
(* process_queue advance only while process_queue is suspended in an await. *)

\* Positions of a deployed agent inside _deploy_agent.
AgentStages == {"created", "running", "closing", "released"}

\* Agents whose task was created and that have not released their permit.
Deployed == {w \in DOMAIN workers : workers[w] # "released"}

InitSwarm ==
    /\ queue \in 0..MaxManifest
    /\ semaphore = MAX_CONCURRENCY
    /\ workers = <<>>
    /\ opc = "loop"
    /\ UnitIdle
    /\ state = [status |-> "STARTED", history_steps |-> <<>>, error_log |-> <<>>,
                semantic_map |-> EmptyMap, current_url |-> "u1",
                last_action_impact |-> NULL, target_url |-> NULL,
                hard_blacklist |-> NoBlacklist]
    /\ page = StartPage
    /\ pc = "idle"
    /\ xpath = NULL
    /\ action = NULL
    /\ pre_state = Unset
    /\ post_state = Unset
    /\ element = NoElement
    /\ impact = NULL
    /\ matches = {}
    /\ searched = <<>>
    /\ threw = {}
    /\ attempts = <<>>
    /\ level_used = 0
    /\ events = <<>>
    /\ raised = FALSE
    /\ calls = 0
    /\ returns = 0
    /\ last_known_url = NULL
    /\ plan_outcome = NoPlan

\* Variant: the permit is taken without waiting for one to be free.
SemaphoreAcquireNoWait ==
    /\ opc = "loop"
    /\ queue > 0
    /\ semaphore' = IF semaphore > 0 THEN semaphore - 1 ELSE 0
    /\ opc' = "acquired"
    /\ UNCHANGED <<queue, workers, nav_vars, mission_vars, unit_vars>>

\* `while not self.queue.empty(): await self.semaphore.acquire()`: returns
\* at once when a permit is free, otherwise stays suspended until a release.
SemaphoreAcquire ==
    /\ opc = "loop"
    /\ queue > 0
    /\ semaphore > 0
    /\ semaphore' = semaphore - 1
    /\ opc' = "acquired"
    /\ UNCHANGED <<queue, workers, nav_vars, mission_vars, unit_vars>>

\* task = await self.queue.get(); asyncio.create_task(self._deploy_agent(task));
\* then process_queue suspends in asyncio.sleep(2.0).
SpawnWorker ==
    /\ opc = "acquired"
    /\ queue' = queue - 1
    /\ workers' = Append(workers, "created")
    /\ opc' = "stagger"
    /\ UNCHANGED <<semaphore, nav_vars, mission_vars, unit_vars>>

\* The stagger sleep is over, back to the loop test.
StaggerDone ==
    /\ opc = "stagger"
    /\ opc' = "loop"
    /\ UNCHANGED <<queue, semaphore, workers, nav_vars, mission_vars, unit_vars>>

\* The queue is empty: `await asyncio.wait(workers)` (skipped without workers).
QueueDrained ==
    /\ opc = "loop"
    /\ queue = 0
    /\ opc' = IF workers = <<>> THEN "done" ELSE "wait"
    /\ UNCHANGED <<queue, semaphore, workers, nav_vars, mission_vars, unit_vars>>

\* asyncio.wait returns once every task is done.
AllWorkersDone ==
    /\ opc = "wait"
    /\ Deployed = {}
    /\ opc' = "done"
    /\ UNCHANGED <<queue, semaphore, workers, nav_vars, mission_vars, unit_vars>>

\* process_queue is suspended in an await, so the agents' tasks can run.
OvermindSuspended ==
    \/ opc \in {"stagger", "wait"}
    \/ opc = "loop" /\ queue > 0 /\ semaphore = 0

\* `finally: self.semaphore.release(); self.queue.task_done()`
Release(w) ==
    /\ workers' = [workers EXCEPT ![w] = "released"]
    /\ semaphore' = semaphore + 1

\* context = await self.grid.create_stealth_context(); an exception goes
\* through `except` to `finally`.
DeployContext(w) ==
    /\ OvermindSuspended
    /\ workers[w] = "created"
    /\ \/ /\ workers' = [workers EXCEPT ![w] = "running"]
          /\ UNCHANGED semaphore
       \/ Release(w)
    /\ UNCHANGED <<queue, opc, nav_vars, mission_vars, unit_vars>>

\* await worker.run(): the mission runs to its end; an exception of its
\* page.close() goes through `except` to `finally`.
WorkerRun(w) ==
    /\ OvermindSuspended
    /\ workers[w] = "running"
    /\ \/ /\ workers' = [workers EXCEPT ![w] = "closing"]
          /\ UNCHANGED semaphore
       \/ Release(w)
    /\ UNCHANGED <<queue, opc, nav_vars, mission_vars, unit_vars>>

\* await context.close(), then (also when it raises) `finally`.
ContextClose(w) ==
    /\ OvermindSuspended
    /\ workers[w] = "closing"
    /\ Release(w)
    /\ UNCHANGED <<queue, opc, nav_vars, mission_vars, unit_vars>>

NextSwarm ==
    \/ SemaphoreAcquire
    \/ SpawnWorker
    \/ StaggerDone
    \/ QueueDrained
    \/ AllWorkersDone
    \/ \E w \in DOMAIN workers : DeployContext(w)
    \/ \E w \in DOMAIN workers : WorkerRun(w)
    \/ \E w \in DOMAIN workers : ContextClose(w)

SpecSwarm == InitSwarm /\ [][NextSwarm]_vars

----------------------------------------------------------------------------
(* SpecDelta: _calculate_delta applied to every pair of fingerprints that  *)
(* _capture_fingerprint can return.                                        *)

InitDelta ==
    /\ pre_state \in AllFingerprints
    /\ post_state \in AllFingerprints
    /\ pc = "delta"
    /\ impact = NULL
    /\ state = [status |-> "STARTED", history_steps |-> <<>>, error_log |-> <<>>,
                semantic_map |-> EmptyMap, current_url |-> "u1",
                last_action_impact |-> NULL, target_url |-> NULL,
                hard_blacklist |-> NoBlacklist]
    /\ page = StartPage
    /\ xpath = NULL
    /\ action = NULL
    /\ element = NoElement
    /\ matches = {}
    /\ searched = <<>>
    /\ threw = {}
    /\ attempts = <<>>
    /\ level_used = 0
    /\ events = <<>>
    /\ raised = FALSE
    /\ calls = 0
    /\ returns = 0
    /\ last_known_url = NULL
    /\ plan_outcome = NoPlan
    /\ queue = 0
    /\ semaphore = MAX_CONCURRENCY
    /\ workers = <<>>
    /\ opc = "loop"
    /\ UnitIdle

\* impact = self._calculate_delta(pre_state, post_state)
DeltaApply ==
    /\ pc = "delta"
    /\ impact' = CalculateDelta(pre_state, post_state)
    /\ pc' = "delta_done"
    /\ UNCHANGED <<state, page, xpath, action, pre_state, post_state, element,
                   matches, searched, threw, attempts, level_used, events, raised, calls,
                   returns>>
    /\ UNCHANGED <<mission_vars, swarm_vars, unit_vars>>

NextDelta == DeltaApply

SpecDelta == InitDelta /\ [][NextDelta]_vars

----------------------------------------------------------------------------
(* SpecRegistry: BlacklistRegistry.register_failure applied to sequences   *)
(* of log entries, on a state that holds no blacklist yet or the empty     *)
(* one of the self-test.                                                   *)

MaxEntries == 3         \* entries handed to register_failure per behaviour

\* Every variable of the engine, the mission and the swarm at rest.
EngineIdle ==
    /\ page = StartPage
    /\ pc = "idle"
    /\ xpath = NULL
    /\ action = NULL
    /\ pre_state = Unset
    /\ post_state = Unset
    /\ element = NoElement
    /\ impact = NULL
    /\ matches = {}
    /\ searched = <<>>
    /\ threw = {}
    /\ attempts = <<>>
    /\ level_used = 0
    /\ events = <<>>
    /\ raised = FALSE
    /\ calls = 0
    /\ returns = 0
    /\ last_known_url = NULL
    /\ plan_outcome = NoPlan
    /\ queue = 0
    /\ semaphore = MAX_CONCURRENCY
    /\ workers = <<>>
    /\ opc = "loop"

\* The empty mission state (as in Init), without target_url.
WorkerState ==
    [status |-> "STARTED", history_steps |-> <<>>, error_log |-> <<>>,
     semantic_map |-> EmptyMap, current_url |-> "u1",
     last_action_impact |-> NULL, target_url |-> NULL,
     hard_blacklist |-> NoBlacklist]

\* Log texts of the navigator and of the self-test, for every registry xpath.
LogEntries ==
    UNION {{HistoryFailed(x), HistoryCrash(x, CLOSED_MSG),
            HistoryResult("CLICK", x, "NO_CHANGE"), ErrLookupFailed(x),
            ErrNoChange("CLICK", x), SelfTestEntry(x)} : x \in RegistryXPaths}
    \cup {ErrNavigatorFatal(TIMEOUT_MSG)}

InitRegistry ==
    /\ state \in {WorkerState, [WorkerState EXCEPT !.hard_blacklist = EmptyBlacklist]}
    /\ EngineIdle
    /\ UnitIdle

\* reg = BlacklistRegistry(state); reg.register_failure(entry)
RegistryRegister ==
    /\ Len(processed) < MaxEntries
    /\ \E entry \in LogEntries :
         /\ state' = [InitializeState(state) EXCEPT
                        !.hard_blacklist = RegisterFailure(@, entry)]
         /\ processed' = Append(processed, entry)
    /\ UNCHANGED <<page, pc, xpath, action, pre_state, post_state, element, impact,
                   matches, searched, threw, attempts, level_used, events, raised,
                   calls, returns, mission_vars, swarm_vars, parser_vars, session_vars,
                   score_vars, service_vars>>

NextRegistry == RegistryRegister

SpecRegistry == InitRegistry /\ [][NextRegistry]_vars

----------------------------------------------------------------------------
(* SpecParser: NeuralParser.extract_plan applied to the replies of the     *)
(* language model. A reply is described by its parts: prose before the     *)
(* payload, markdown fences around it, the payload, and what follows it.   *)

\* Payloads:
\*   OBJECT          {"next_phase": "NAVIGATE", "target_xpath": "...", ...}
\*   OBJECT_COMMA    the same with a comma before the closing brace
\*   BROKEN_OBJECT   braces and a double-quoted "next_phase" key, not JSON
\*   ARRAY           []        (valid JSON, not an object)
\*   SCALAR          42        (valid JSON, not an object)
\*   DEEP_ARRAY      [[[[...   nested beyond the recursion limit
\*   ERROR_COMMENT   /* Error: AI Engine Offline */ (generate_code's own reply)
Payloads ==
    {"OBJECT", "OBJECT_COMMA", "BROKEN_OBJECT", "ARRAY", "SCALAR", "DEEP_ARRAY",
     "ERROR_COMMENT"}

\* tail: nothing, prose, or prose that holds a closing brace ("... {note}").
ResponseTexts ==
    [lead : BOOLEAN, fenced : BOOLEAN, body : Payloads, tail : {"none", "prose", "braces"}]

\* text.strip().replace('```json', '').replace('```', '')
CleanText(text) == [lead |-> text.lead, body |-> text.body, tail |-> text.tail]

PlanObject ==
    [type |-> "dict", next_phase |-> "NAVIGATE",
     target_xpath |-> "/html/body/header[1]/button", action_type |-> "CLICK"]

\* json.loads on a text made of the payload alone (blanks around it allowed).
JsonValue(body) ==
    CASE body = "OBJECT" -> [ok |-> TRUE, value |-> PlanObject]
      [] body = "ARRAY" -> [ok |-> TRUE, value |-> [type |-> "list"]]
      [] body = "SCALAR" -> [ok |-> TRUE, value |-> [type |-> "int"]]
      [] body = "DEEP_ARRAY" -> [ok |-> FALSE, error |-> "RecursionError"]
      [] OTHER -> [ok |-> FALSE, error |-> "JSONDecodeError"]

\* json.loads(clean_text): the scanner fails on the first character of
\* leading prose; it descends into the payload before it sees what follows,
\* and reports what follows a complete value as extra data.
JsonLoads(clean) ==
    IF clean.lead THEN [ok |-> FALSE, error |-> "JSONDecodeError"]
    ELSE IF clean.body = "DEEP_ARRAY" THEN JsonValue(clean.body)
    ELSE IF clean.tail # "none" THEN [ok |-> FALSE, error |-> "JSONDecodeError"]
    ELSE JsonValue(clean.body)

HasBraces(body) == body \in {"OBJECT", "OBJECT_COMMA", "BROKEN_OBJECT"}

\* re.search(r'\{.*\}', ...): greedy, from the first "{" to the last "}".
\* exact: the block is the payload and nothing more.
BraceBlock(clean) ==
    IF HasBraces(clean.body)
    THEN [found |-> TRUE, body |-> clean.body, exact |-> clean.tail # "braces"]
    ELSE IF clean.tail = "braces"
    THEN [found |-> TRUE, body |-> "BROKEN_OBJECT", exact |-> TRUE]
    ELSE [found |-> FALSE]

\* re.sub(r',\s*}', '}', ...); re.sub(r',\s*]', ']', ...)
Sanitize(body) == IF body = "OBJECT_COMMA" THEN "OBJECT" ELSE body

\* json.loads(sanitized) inside the bare except.
BlockLoads(block) ==
    IF block.exact THEN JsonValue(Sanitize(block.body))
    ELSE [ok |-> FALSE, error |-> "JSONDecodeError"]

\* re.search(r'"next_phase":\s*"(\w+)"', clean_text)
HasPhaseKey(clean) == HasBraces(clean.body)

ScrapedPlan ==
    [type |-> "dict", next_phase |-> "NAVIGATE",
     target_xpath |-> "/html/body/header[1]/button",
     thought_process |-> "Extracted via Heuristic Scraper"]

SafeRescanPlan ==
    [type |-> "dict", next_phase |-> "ANALYZE_DOM", target_xpath |-> NULL,
     thought_process |-> "JSON Parsing Failure. System defaulting to safe re-scan."]

Returned(strategy, value) == [raised |-> FALSE, strategy |-> strategy, value |-> value]
Raised(error) == [raised |-> TRUE, error |-> error]

\* extract_plan: strategy 1 returns whatever json.loads yields and lets every
\* exception but JSONDecodeError through; strategies 2 and 3 swallow all.
ExtractPlan(text) ==
    LET clean == CleanText(text)
        direct == JsonLoads(clean)
        block == BraceBlock(clean)
    IN  IF direct.ok THEN Returned(1, direct.value)
        ELSE IF direct.error # "JSONDecodeError" THEN Raised(direct.error)
        ELSE IF block.found /\ BlockLoads(block).ok
        THEN Returned(2, BlockLoads(block).value)
        ELSE IF HasPhaseKey(clean) THEN Returned(3, ScrapedPlan)
        ELSE Returned(4, SafeRescanPlan)

InitParser ==
    /\ state = WorkerState
    /\ EngineIdle
    /\ ServiceIdle
    /\ RegistryIdle
    /\ SessionsIdle
    /\ ScoreIdle
    /\ raw_response \in ResponseTexts
    /\ parsed = Unset

\* plan = NeuralParser.extract_plan(raw_response)
ParserApply ==
    /\ parsed = Unset
    /\ parsed' = ExtractPlan(raw_response)
    /\ UNCHANGED <<raw_response, nav_vars, mission_vars, swarm_vars, registry_vars,
                   session_vars, score_vars, service_vars>>

NextParser == ParserApply

SpecParser == InitParser /\ [][NextParser]_vars

----------------------------------------------------------------------------
(* SpecSessions: the workers the orchestrator runs side by side, each with *)
(* the state dict, architect and navigator its constructor created, and    *)
(* their execute() calls, which overlap at the awaits inside execute().    *)

MaxSessionCalls == 2    \* execute() calls of all workers together per behaviour

\* At most MAX_CONCURRENCY workers run at a time.
Sessions == 1..MAX_CONCURRENCY

InitSessions ==
    /\ state = WorkerState
    /\ EngineIdle
    /\ ServiceIdle
    /\ RegistryIdle
    /\ ParserIdle
    /\ ScoreIdle
    /\ missions = [m \in Sessions |-> WorkerState]
    /\ in_flight = {}

\* The architect of worker m commits a NAVIGATE decision into m's state.
SessionPlan(m) ==
    /\ m \notin in_flight
    /\ calls < MaxSessionCalls
    /\ missions[m].status # "NAVIGATING"
    /\ \E x \in XPATHS, a \in ActionTypes :
         missions' = [missions EXCEPT
                         ![m].semantic_map = [target_xpath |-> x, action_type |-> a],
                         ![m].status = "NAVIGATING"]
    /\ UNCHANGED <<in_flight, nav_vars, mission_vars, swarm_vars, registry_vars,
                   parser_vars, score_vars, service_vars>>

\* self.state = await self.navigator.execute(self.state, page): the call of
\* worker m is entered and reaches its first await.
SessionCall(m) ==
    /\ m \notin in_flight
    /\ calls < MaxSessionCalls
    /\ missions[m].status = "NAVIGATING"
    /\ in_flight' = in_flight \cup {m}
    /\ calls' = calls + 1
    /\ UNCHANGED <<missions, state, page, pc, xpath, action, pre_state, post_state,
                   element, impact, matches, searched, threw, attempts, level_used,
                   events, raised, returns, mission_vars, swarm_vars, registry_vars,
                   parser_vars, score_vars, service_vars>>

\* Variant: the workers share one state dict.
SessionReturnSharedState(m) ==
    /\ m \in in_flight
    /\ \E r \in ExecuteResults(missions[m]) : missions' = [k \in Sessions |-> r]
    /\ in_flight' = in_flight \ {m}
    /\ returns' = returns + 1
    /\ UNCHANGED <<state, page, pc, xpath, action, pre_state, post_state,
                   element, impact, matches, searched, threw, attempts, level_used,
                   events, raised, calls, mission_vars, swarm_vars, registry_vars,
                   parser_vars, score_vars, service_vars>>

\* The call of worker m writes its results into the dict it was handed and
\* returns it.
SessionReturn(m) ==
    /\ m \in in_flight
    /\ \E r \in ExecuteResults(missions[m]) : missions' = [missions EXCEPT ![m] = r]
    /\ in_flight' = in_flight \ {m}
    /\ returns' = returns + 1
    /\ UNCHANGED <<state, page, pc, xpath, action, pre_state, post_state,
                   element, impact, matches, searched, threw, attempts, level_used,
                   events, raised, calls, mission_vars, swarm_vars, registry_vars,
                   parser_vars, score_vars, service_vars>>

NextSessions ==
    \E m \in Sessions : SessionPlan(m) \/ SessionCall(m) \/ SessionReturn(m)

SpecSessions == InitSessions /\ [][NextSessions]_vars

----------------------------------------------------------------------------
(* SpecScore: calculate_drishti_score (utils/helpers.py and the older copy *)
(* in engine/scout.py) applied to every combination of arguments. Times    *)
(* and scores are counted in tenths, so that the float arithmetic of the   *)
(* load-time penalty and the truncation of int() are kept.                 *)

MaxViolations == 2      \* violations in the list handed to the score

WEIGHT_CRITICAL == 15
WEIGHT_SERIOUS == 10
WEIGHT_MODERATE == 5
WEIGHT_JS_ERROR == 20
WEIGHT_LOAD_TIME == 2
WEIGHT_MISSING_LANG == 15
WEIGHT_NON_SECURE == 25
WEIGHT_TRACKER_HEAVY == 10
WEIGHT_MOBILE_FAIL == 15
WEIGHT_PRIVACY_LEAK == 30

Min(a, b) == IF a <= b THEN a ELSE b
Max(a, b) == IF a >= b THEN a ELSE b

\* v.get("impact", "moderate") and len(v.get("nodes", []))
Violations == [impact : {"critical", "serious", "moderate", "minor"}, count : {0, 3}]

ViolationLists == UNION {[1..n -> Violations] : n \in 0..MaxViolations}

\* load_time in tenths of a second: 3.0 s, 3.2 s, 50 s.
ScoreArgs ==
    [version : {"helpers", "scout"}, violations : ViolationLists, js_errors : {0, 1, 2},
     load_time : {30, 32, 500}, missing_lang : BOOLEAN, is_secure : BOOLEAN,
     tracker_count : {0, 6}, mobile_issue : BOOLEAN, pii_leak : BOOLEAN]

\* The caps on the penalty of one violation: helpers.py and scout.py differ.
ViolationCap(version, imp) ==
    CASE imp = "critical" -> IF version = "helpers" THEN 35 ELSE 30
      [] imp = "serious" -> IF version = "helpers" THEN 25 ELSE 20
      [] imp = "moderate" -> IF version = "helpers" THEN 15 ELSE 10

ViolationWeight(imp) ==
    CASE imp = "critical" -> WEIGHT_CRITICAL
      [] imp = "serious" -> WEIGHT_SERIOUS
      [] imp = "moderate" -> WEIGHT_MODERATE

\* for v in violations: score -= min(count * WEIGHT, cap)
RECURSIVE ViolationPenalty(_, _, _)
ViolationPenalty(version, vs, i) ==
    IF i > Len(vs) THEN 0
    ELSE (IF vs[i].impact = "minor" THEN 0
          ELSE Min(vs[i].count * ViolationWeight(vs[i].impact),
                   ViolationCap(version, vs[i].impact)))
         + ViolationPenalty(version, vs, i + 1)

\* int(score) for a score in tenths: truncation towards zero.
IntOfTenths(t) == IF t >= 0 THEN t \div 10 ELSE -((-t) \div 10)

\* The score before the final clamp, in tenths. scout.py's copy has no
\* mobile_issue and pii_leak parameters.
RawScoreTenths(a) ==
    10 * (100
          - ViolationPenalty(a.version, a.violations, 1)
          - (IF a.js_errors > 0 THEN Min(a.js_errors * WEIGHT_JS_ERROR, 30) ELSE 0)
          - (IF a.missing_lang THEN WEIGHT_MISSING_LANG ELSE 0)
          - (IF ~a.is_secure THEN WEIGHT_NON_SECURE ELSE 0)
          - (IF a.tracker_count > 5 THEN WEIGHT_TRACKER_HEAVY ELSE 0)
          - (IF a.version = "helpers" /\ a.mobile_issue THEN WEIGHT_MOBILE_FAIL ELSE 0)
          - (IF a.version = "helpers" /\ a.pii_leak THEN WEIGHT_PRIVACY_LEAK ELSE 0))
    - (IF a.load_time > 30
       THEN Min((a.load_time - 30) * WEIGHT_LOAD_TIME, 200) ELSE 0)

\* Variant: return int(score), without the lower clamp.
CalculateDrishtiScoreUnclamped(a) == IntOfTenths(RawScoreTenths(a))

\* return max(0, int(score))
CalculateDrishtiScore(a) == Max(0, IntOfTenths(RawScoreTenths(a)))

InitScore ==
    /\ state = WorkerState
    /\ EngineIdle
    /\ ServiceIdle
    /\ RegistryIdle
    /\ ParserIdle
    /\ SessionsIdle
    /\ score_args \in {a \in ScoreArgs :
                          a.version = "scout" => ~a.mobile_issue /\ ~a.pii_leak}
    /\ drishti_score = Unset

ScoreApply ==
    /\ drishti_score = Unset
    /\ drishti_score' = [value |-> CalculateDrishtiScore(score_args)]
    /\ UNCHANGED <<score_args, nav_vars, mission_vars, swarm_vars, registry_vars,
                   parser_vars, session_vars, service_vars>>

NextScore == ScoreApply

SpecScore == InitScore /\ [][NextScore]_vars

----------------------------------------------------------------------------
(* SpecHive: HiveWorker.run (main_agent_runner.py), the loop of one mission: *)
(* sense, plan, act. plan() is PlanCall; execute() is taken as a whole. The  *)
(* step budget CFG.MAX_STEPS is scaled down to MaxPlans.                     *)

HiveBudget == MaxPlans

\* self.state of a new HiveWorker, after the first page.goto.
HiveState == [WorkerState EXCEPT !.status = "PENDING"]

\* The fields of the loop: fractured is the step of the first plan() call that
\* returned at the context-integrity check (0: none), later counts the plan()
\* calls after it, recovered tells whether one of them got past the check.
HiveAtStart ==
    [pc |-> "deploy", step_count |-> 0, acted |-> "none", fractured |-> 0,
     later |-> 0, recovered |-> FALSE, exit |-> "none"]

InitHive ==
    /\ state = HiveState
    /\ EngineIdle
    /\ RegistryIdle /\ ParserIdle /\ SessionsIdle /\ ScoreIdle
    /\ SingletonIdle /\ BatchIdle
    /\ hive = HiveAtStart

nav_locals == <<page, pc, xpath, action, pre_state, post_state, element, impact,
                matches, searched, threw, attempts, level_used, events, raised,
                calls, returns>>

HiveFrame ==
    UNCHANGED <<swarm_vars, registry_vars, parser_vars, session_vars, score_vars,
                singleton_vars, batch_vars>>

\* 1. Infiltration: page.goto(task url); an exception ends the worker in its
\* outer handler, without a report.
HiveDeploy ==
    /\ hive.pc = "deploy"
    /\ \E ok \in BOOLEAN :
          hive' = [hive EXCEPT !.pc = IF ok THEN "sense" ELSE "closed",
                               !.exit = IF ok THEN "none" ELSE "crash"]
    /\ UNCHANGED <<state, nav_locals, mission_vars>>
    /\ HiveFrame

\* The head of an iteration and phase 1: the loop condition, the task timeout,
\* page.evaluate(DEEP_SCAN_SCRIPT) and sensor.analyze. analyze appends
\* "Sensor Error: ..." when the script returned its error object; an exception
\* of evaluate ("Sensor Glitch") goes to the next iteration.
HiveSense ==
    /\ hive.pc = "sense"
    /\ IF hive.step_count >= HiveBudget
       THEN /\ hive' = [hive EXCEPT !.pc = "report", !.exit = "budget"]
            /\ UNCHANGED state
       ELSE \E scan \in {"timeout", "glitch", "ok", SCAN_ERROR_MSG, SCAN_FRACTURE_MSG} :
              /\ hive' = [hive EXCEPT
                            !.step_count = @ + 1,
                            !.acted = "none",
                            !.pc = CASE scan = "timeout" -> "report"
                                     [] scan = "glitch" -> "sense"
                                     [] OTHER -> "plan",
                            !.exit = IF scan = "timeout" THEN "timeout" ELSE @]
              /\ state' = IF scan \in {SCAN_ERROR_MSG, SCAN_FRACTURE_MSG}
                          THEN [state EXCEPT !.error_log = Append(@, ErrSensor(scan))]
                          ELSE state
    /\ UNCHANGED <<nav_locals, mission_vars>>
    /\ HiveFrame

\* Phase 2: self.state = self.architect.plan(self.state), and the two breaks
\* on COMPLETED and FAILED.
HivePlan ==
    /\ hive.pc = "plan"
    /\ PlanCall
    /\ LET branch == plan_outcome'.branch
           passed == branch \notin {"victory", "fracture"}
       IN  hive' = [hive EXCEPT
                      !.pc = IF state'.status \in {"COMPLETED", "FAILED"}
                             THEN "report" ELSE "act",
                      !.exit = CASE state'.status = "COMPLETED" -> "completed"
                                 [] state'.status = "FAILED" -> "failed"
                                 [] OTHER -> @,
                      !.fractured = IF @ = 0 /\ branch = "fracture"
                                    THEN hive.step_count ELSE @,
                      !.later = IF hive.fractured > 0 THEN @ + 1 ELSE @,
                      !.recovered = @ \/ (hive.fractured > 0 /\ passed)]
    /\ UNCHANGED nav_locals
    /\ HiveFrame

\* Variant: the dispatch reads the key the architect writes.
RunnerActionByType(m) == IF m.action_type = NULL THEN "WAIT" ELSE m.action_type

\* action = plan.get('action', 'WAIT'): semantic_map holds target_xpath and
\* action_type (and description), never 'action'.
RunnerAction(m) == IF "action" \in DOMAIN m THEN m.action ELSE "WAIT"

\* Phase 3: execute() unless the action is WAIT, else an idle tick of one
\* second. (Phase 4 empties child_missions.)
HiveAct ==
    /\ hive.pc = "act"
    /\ IF RunnerAction(state.semantic_map) # "WAIT"
       THEN /\ state' \in ExecuteResults(state)
            /\ hive' = [hive EXCEPT !.pc = "sense", !.acted = "execute"]
       ELSE /\ UNCHANGED state
            /\ hive' = [hive EXCEPT !.pc = "sense", !.acted = "idle"]
    /\ UNCHANGED <<nav_locals, mission_vars>>
    /\ HiveFrame

\* End of mission: _generate_report, then page.close().
HiveReport ==
    /\ hive.pc = "report"
    /\ hive' = [hive EXCEPT !.pc = "closed"]
    /\ UNCHANGED <<state, nav_locals, mission_vars>>
    /\ HiveFrame

NextHive == HiveDeploy \/ HiveSense \/ HivePlan \/ HiveAct \/ HiveReport

SpecHive == InitHive /\ [][NextHive]_vars

----------------------------------------------------------------------------
(* class LocalAI (src/utils/model_loader.py) and the threads that use it.
   Thread 0 is the thread that imports the module: the module body ends with
   ai_engine = LocalAI(), and the interpreter's import lock keeps every other
   thread from obtaining the class before the module body has finished.
   __new__ runs under cls._lock and is one step; __init__ takes no lock, so
   its test of _initialized, its body and its final assignment are separate
   steps that interleave with the steps of the other threads. *)

MaxThreads == 3

Importer == 0
Threads == 0..MaxThreads

\* The class attributes and the instance's fields. instances counts the
\* objects created by super().__new__; init_runs counts the executions of the
\* body of __init__ (one "Initializing Local AI Neural Engine" log line each).
InitSingleton ==
    /\ state = WorkerState
    /\ EngineIdle
    /\ RegistryIdle /\ ParserIdle /\ SessionsIdle /\ ScoreIdle /\ BatchIdle /\ HiveIdle
    /\ ai = [instances |-> 0, initialized |-> FALSE, mpnet |-> "None",
             llm_reasoning |-> "None", init_runs |-> 0]
    /\ threads = [t \in Threads |-> [pc |-> "call", obtained |-> 0]]

SingletonFrame ==
    UNCHANGED <<nav_vars, mission_vars, swarm_vars, registry_vars, parser_vars,
                session_vars, score_vars, batch_vars, hive_vars>>

\* Variant: the class is handed to the threads before the module body has
\* constructed ai_engine.
ModuleImportedEarly == TRUE

\* ai_engine = LocalAI() at the end of the module body has returned.
ModuleImported == threads[Importer].pc = "done"

\* __new__: under cls._lock, create the instance if there is none yet and
\* clear its _initialized flag; return cls._instance.
LocalAINew(t) ==
    /\ threads[t].pc = "call"
    /\ t = Importer \/ ModuleImported
    /\ ai' = IF ai.instances = 0
             THEN [ai EXCEPT !.instances = 1, !.initialized = FALSE]
             ELSE ai
    /\ threads' = [threads EXCEPT ![t] = [pc |-> "init", obtained |-> ai'.instances]]
    /\ SingletonFrame

\* __init__: if self._initialized: return
LocalAIInitCheck(t) ==
    /\ threads[t].pc = "init"
    /\ threads' = [threads EXCEPT ![t].pc = IF ai.initialized THEN "done" ELSE "body"]
    /\ UNCHANGED ai
    /\ SingletonFrame

\* __init__: hardware detection, configuration, and the lazy fields set to
\* None.
LocalAIInitBody(t) ==
    /\ threads[t].pc = "body"
    /\ ai' = [ai EXCEPT !.mpnet = "None", !.llm_reasoning = "None",
                        !.init_runs = @ + 1]
    /\ threads' = [threads EXCEPT ![t].pc = "flag"]
    /\ SingletonFrame

\* __init__: self._initialized = True
LocalAIInitFlag(t) ==
    /\ threads[t].pc = "flag"
    /\ ai' = [ai EXCEPT !.initialized = TRUE]
    /\ threads' = [threads EXCEPT ![t].pc = "done"]
    /\ SingletonFrame

\* The mpnet property, read by a thread that holds the instance: if the field
\* is None, load the model under the lock (the load may fail and leave None).
LoadMpnet(t) ==
    /\ threads[t].pc = "done"
    /\ ai.mpnet = "None"
    /\ \E ok \in BOOLEAN :
          ai' = [ai EXCEPT !.mpnet = IF ok THEN "loaded" ELSE "None"]
    /\ UNCHANGED threads
    /\ SingletonFrame

\* The llm_reasoning property: the same, after the Ollama health check.
LoadLlmReasoning(t) ==
    /\ threads[t].pc = "done"
    /\ ai.llm_reasoning = "None"
    /\ \E ok \in BOOLEAN :
          ai' = [ai EXCEPT !.llm_reasoning = IF ok THEN "loaded" ELSE "None"]
    /\ UNCHANGED threads
    /\ SingletonFrame

NextSingleton ==
    \E t \in Threads :
        \/ LocalAINew(t)
        \/ LocalAIInitCheck(t)
        \/ LocalAIInitBody(t)
        \/ LocalAIInitFlag(t)
        \/ LoadMpnet(t)
        \/ LoadLlmReasoning(t)

SpecSingleton == InitSingleton /\ [][NextSingleton]_vars

----------------------------------------------------------------------------
(* batch_run.py: run_batch over the task list of targets.json, with the
   progress kept in batch_state.json. A task is an entry of the flattened
   list all_tasks; only its URL takes part in the control flow, so a task
   is written as its URL here. A URL may be listed more than once (under two
   categories, or twice under one). state_file = Unset stands for a state
   file that is missing or unreadable: load_state then starts fresh. *)

MaxTargets == 2

BatchUrls == {"https://a.gov.in", "https://b.gov.in"}

\* all_tasks: the flattened target list.
TargetLists == UNION {[1..n -> BatchUrls] : n \in 1..MaxTargets}

\* What one iteration of the retry loop can meet: the scout exits with 0 and
\* the success flag; it exits otherwise (non-zero code or no flag); it runs
\* into PROCESS_TIMEOUT and is killed; Popen itself raises.
ScoutOutcomes == {"success", "failed", "timeout", "error"}

\* load_state: the saved state, or the fresh one.
FreshState == [completed |-> <<>>, failed |-> <<>>]
LoadState == IF state_file = Unset THEN FreshState ELSE state_file

\* Variant: the resume filter is dropped.
RemainingTasksUnfiltered(all_tasks, st) == all_tasks

\* remaining_tasks = [t for t in all_tasks if t[1] not in state["completed"]]
RemainingTasks(all_tasks, st) ==
    SelectSeq(all_tasks, LAMBDA u : u \notin Range(st.completed))

max_retries == 1

\* Variant: only the last attempt ends the retry loop.
RetryLoopEndsLate(outcome, attempt) == attempt = max_retries

\* The retry loop ends at a break (success, or an exception other than the
\* timeout) and after attempt max_retries.
RetryLoopEnds(outcome, attempt) ==
    outcome \in {"success", "error"} \/ attempt = max_retries

BatchAtRest ==
    [pc |-> "idle", state |-> FreshState, remaining |-> <<>>, done |-> 0,
     i |-> 0, attempt |-> 0]

InitBatch ==
    /\ state = WorkerState
    /\ EngineIdle
    /\ RegistryIdle /\ ParserIdle /\ SessionsIdle /\ ScoreIdle /\ SingletonIdle
    /\ HiveIdle
    /\ targets \in TargetLists
    /\ state_file = Unset
    /\ batch = BatchAtRest
    /\ spawned = <<>>

BatchFrame ==
    UNCHANGED <<nav_vars, mission_vars, swarm_vars, registry_vars, parser_vars,
                session_vars, score_vars, singleton_vars, hive_vars>>

\* run_batch up to the first iteration: load the targets and the state,
\* filter, and return at once when nothing remains.
BatchStart ==
    /\ batch.pc = "idle"
    /\ LET st == LoadState
           rem == RemainingTasks(targets, st)
       IN  batch' = [pc |-> IF Len(rem) = 0 THEN "idle" ELSE "attempt",
                     state |-> st, remaining |-> rem, done |-> Len(st.completed),
                     i |-> IF Len(rem) = 0 THEN 0 ELSE 1, attempt |-> 0]
    /\ spawned' = <<>>
    /\ UNCHANGED <<targets, state_file>>
    /\ BatchFrame

\* One iteration of the retry loop for the task at hand.
BatchAttempt(outcome) ==
    /\ batch.pc = "attempt"
    /\ LET url == batch.remaining[batch.i]
           last == batch.attempt = max_retries
           st == CASE outcome = "success" ->
                        [batch.state EXCEPT !.completed = Append(@, url)]
                   [] outcome \in {"failed", "timeout"} /\ last ->
                        [batch.state EXCEPT !.failed = Append(@, url),
                                            !.completed = Append(@, url)]
                   [] OTHER -> batch.state
           saved == outcome = "success" \/ (outcome \in {"failed", "timeout"} /\ last)
           ends == RetryLoopEnds(outcome, batch.attempt)
           finished == ends /\ batch.i = Len(batch.remaining)
       IN  /\ spawned' = IF outcome = "error" THEN spawned
                         ELSE Append(spawned, [task |-> batch.i, url |-> url,
                                               attempt |-> batch.attempt,
                                               outcome |-> outcome])
           /\ state_file' = IF saved THEN st ELSE state_file
           /\ batch' = [batch EXCEPT
                           !.state = st,
                           !.pc = IF finished THEN "idle" ELSE "attempt",
                           !.i = IF ends /\ ~finished THEN @ + 1 ELSE @,
                           !.attempt = IF ends THEN 0 ELSE @ + 1]
    /\ UNCHANGED targets
    /\ BatchFrame

\* signal_handler: Ctrl+C ends the run where it stands: between two attempts,
\* while a scout is running (it is terminated), or inside save_state, whose
\* open(STATE_FILE, "w") has truncated the file (the next load_state then
\* finds it unreadable).
BatchInterrupt ==
    /\ batch.pc = "attempt"
    /\ batch' = [batch EXCEPT !.pc = "idle"]
    /\ \E at \in {"sleep", "communicate", "save_state"} :
          LET url == batch.remaining[batch.i]
              spawn(o) == [task |-> batch.i, url |-> url,
                           attempt |-> batch.attempt, outcome |-> o]
          IN  CASE at = "sleep" ->
                     UNCHANGED <<spawned, state_file>>
                [] at = "communicate" ->
                     /\ spawned' = Append(spawned, spawn("terminated"))
                     /\ UNCHANGED state_file
                [] OTHER ->
                     /\ \E o \in {"success", "failed", "timeout"} :
                           /\ o = "success" \/ batch.attempt = max_retries
                           /\ spawned' = Append(spawned, spawn(o))
                     /\ state_file' = Unset
    /\ UNCHANGED targets
    /\ BatchFrame

\* Between two runs the operator removes batch_state.json ("Delete
\* 'batch_state.json' to restart").
RemoveStateFile ==
    /\ batch.pc = "idle"
    /\ state_file # Unset
    /\ state_file' = Unset
    /\ UNCHANGED <<targets, batch, spawned>>
    /\ BatchFrame

NextBatch ==
    \/ BatchStart
    \/ \E outcome \in ScoutOutcomes : BatchAttempt(outcome)
    \/ BatchInterrupt
    \/ RemoveStateFile

SpecBatch == InitBatch /\ [][NextBatch]_vars

----------------------------------------------------------------------------
(* Claims about the classifier (checked under SpecDelta) *)

Classified == pc = "delta_done"
BothCaptured == ~GetError(pre_state) /\ ~GetError(post_state)
SameUrl == post_state.url = pre_state.url
SameInputs == post_state.visible_inputs = pre_state.visible_inputs
SameTitle == post_state.title = pre_state.title
NodeCountMoved ==
    \/ post_state.node_count - pre_state.node_count > NODE_THRESHOLD
    \/ pre_state.node_count - post_state.node_count > NODE_THRESHOLD
TextLenMoved ==
    \/ post_state.text_len - pre_state.text_len > TEXT_THRESHOLD
    \/ pre_state.text_len - post_state.text_len > TEXT_THRESHOLD

\* C5: for every pair of fingerprints the classifier returns the label of the
\* first matching rule in the order capture failed, URL differs, more visible
\* inputs, fewer visible inputs, title differs, node count beyond threshold,
\* text length beyond threshold, otherwise NO_CHANGE.
C5_ClassifierPriority ==
    Classified =>
        /\ ~BothCaptured => impact = "UNKNOWN_STATE"
        /\ BothCaptured =>
            /\ ~SameUrl => impact = "URL_NAVIGATED"
            /\ SameUrl =>
                /\ post_state.visible_inputs > pre_state.visible_inputs
                     => impact = "INPUT_FIELD_APPEARED"
                /\ post_state.visible_inputs < pre_state.visible_inputs
                     => impact = "UI_COLLAPSED"
                /\ SameInputs =>
                    /\ ~SameTitle => impact = "TITLE_CHANGED"
                    /\ SameTitle =>
                        /\ NodeCountMoved => impact = "DOM_MUTATED"
                        /\ ~NodeCountMoved =>
                            /\ TextLenMoved => impact = "CONTENT_UPDATED"
                            /\ ~TextLenMoved => impact = "NO_CHANGE"

\* C5 witness: URL and input count (and node count) changed together, and the
\* URL rule won.
C5_Witness ==
    /\ Classified
    /\ BothCaptured
    /\ ~SameUrl
    /\ post_state.visible_inputs = pre_state.visible_inputs + 1
    /\ post_state.node_count # pre_state.node_count
    /\ impact = "URL_NAVIGATED"

\* C6 as stated: classify(F, F) is NO_CHANGE for every fingerprint F that
\* capture can return.
C6_IdempotentEveryFingerprint ==
    (Classified /\ pre_state = post_state) => impact = "NO_CHANGE"

\* C6 amended: classify(F, F) is NO_CHANGE for every successfully captured
\* fingerprint F, and UNKNOWN_STATE when F is the error fingerprint of a
\* failed capture.
C6_IdempotentCaptured ==
    (Classified /\ pre_state = post_state) =>
        impact = IF GetError(pre_state) THEN "UNKNOWN_STATE" ELSE "NO_CHANGE"

\* C6 witness: a captured fingerprint classified against itself.
C6_Witness ==
    /\ Classified
    /\ pre_state = post_state
    /\ ~GetError(pre_state)
    /\ pre_state.visible_inputs > 0
    /\ impact = "NO_CHANGE"

----------------------------------------------------------------------------
(* Claims about execute() (checked under Spec) *)

\* The lookup of the running (or just returned) call has been made and its
\* observation is still held.
LookupDone == events # <<>> /\ Last(events) = "LOCATE"

\* The last call had a target and is over.
TargetCallOver == pc = "idle" /\ xpath # NULL

\* The engine of the last call raised out of its last step.
ClickExhausted ==
    /\ action = "CLICK"
    /\ Len(attempts) = CLICK_LEVELS
    /\ attempts[CLICK_LEVELS].raised
TypingRaised ==
    /\ action = "TYPE"
    /\ \E i \in DOMAIN attempts :
           attempts[i].step = "FORCE_FILL" /\ attempts[i].raised
TerminalFailure == ClickExhausted \/ TypingRaised

LastHistory == Last(state.history_steps)
LastError == Last(state.error_log)

\* C1: execute never propagates an exception: whatever fails (fingerprint
\* capture, lookup, click ladder, typing engine), no exception escapes and
\* every call entered has returned exactly one state once it is over.
C1_NeverPropagates ==
    /\ ~raised
    /\ pc = "idle" => returns = calls
    /\ pc # "idle" => returns + 1 = calls

\* C1 witness: a call whose before-capture failed and whose click ladder was
\* exhausted has returned.
C1_Witness ==
    /\ TargetCallOver
    /\ GetError(pre_state)
    /\ ClickExhausted
    /\ returns = calls

\* C2: when the xpath matches in no scope, execute returns the acquisition
\* failure (FAILED history entry, lookup error logged, no element), performs no
\* click or type step and does not raise.
C2_AcquisitionFailure ==
    (LookupDone /\ matches = {}) =>
        /\ pc = "idle"
        /\ element = NoElement
        /\ LastHistory = HistoryFailed(xpath)
        /\ LastError = ErrLookupFailed(xpath)
        /\ state.status = "PLANNING"
        /\ attempts = <<>>
        /\ level_used = 0
        /\ ~raised
        /\ returns = calls

\* C2 witness: a lookup of an xpath that matches nowhere went through the main
\* document, the frames and the shadow scan, and the call has returned.
C2_Witness ==
    /\ LookupDone
    /\ matches = {}
    /\ threw = {}
    /\ Len(searched) = MaxFrames + 3
    /\ pc = "idle"
    /\ LastHistory.kind = "FAILED"

\* C3: the click ladder tries levels 1, 2, 3, 4 in that order; level k+1 is
\* attempted only if level k raised, and nothing is attempted after the first
\* level that succeeds.
C3_LadderOrder ==
    (action = "CLICK" /\ attempts # <<>>) =>
        /\ Len(attempts) <= CLICK_LEVELS
        /\ \A i \in DOMAIN attempts : attempts[i].step = i
        /\ \A i \in DOMAIN attempts : i < Len(attempts) => attempts[i].raised
        /\ \A i \in DOMAIN attempts : ~attempts[i].raised => i = Len(attempts)

\* C3 witness: levels 1 and 2 raised, level 3 succeeded and ended the ladder.
C3_Witness ==
    /\ action = "CLICK"
    /\ Len(attempts) = 3
    /\ attempts[1].raised /\ attempts[2].raised /\ ~attempts[3].raised
    /\ level_used = 3

QueryRank(q) ==
    IF q.kind = "main" THEN 0
    ELSE IF q.kind = "frame" THEN 1 + q.idx
    ELSE MaxFrames + 2

\* Scopes a query looks into.
ScopesOf(q) ==
    IF q.kind = "main" THEN {MainScope}
    ELSE IF q.kind = "frame" THEN {FrameScopeOf(q.idx)}
    ELSE {MainScope} \cup ScannedShadowRoots

\* A query produced a match: it did not throw and one of its scopes has one.
Produced(q) == q \notin threw /\ ScopesOf(q) \cap matches # {}

\* The queries were issued in the fixed order.
SearchedInOrder ==
    \A i, j \in DOMAIN searched :
        i < j => QueryRank(searched[i]) < QueryRank(searched[j])

\* The first query that produced a match ended the search and its match is
\* the element returned.
FirstMatchReturned ==
    /\ \A i \in DOMAIN searched : Produced(searched[i]) => i = Len(searched)
    /\ IF Produced(Last(searched))
       THEN element \in ScopesOf(Last(searched)) \cap matches
       ELSE element = NoElement

\* No scope is passed over: every query that comes before the last one issued
\* was issued too.
NoScopeSkipped ==
    \A q \in QuerySites :
        QueryRank(q) <= QueryRank(Last(searched)) => q \in Range(searched)

\* C7: the locator searches main document, frames in document order, shadow
\* roots; it returns the match of the earliest scope that produced one without
\* searching later scopes, and a later scope is searched whenever every
\* earlier scope produced no match, also when an earlier query failed.
C7_ScopeOrder ==
    LookupDone => (SearchedInOrder /\ FirstMatchReturned /\ NoScopeSkipped)

\* C8: an xpath that matches only inside a shadow root nested two levels deep
\* is located through the shadow scan.
C8_NestedShadowLocated ==
    (LookupDone /\ matches = {ShadowScope(2)} /\ threw = {}) =>
        element = ShadowScope(2)

\* C9: when a step fails after the element was located, the outcome of this
\* call is UNKNOWN_STATE and the exception message is kept in the error log.
C9_FailureIsUnknownState ==
    (TargetCallOver /\ element # NoElement /\ TerminalFailure) =>
        /\ state.last_action_impact = "UNKNOWN_STATE"
        /\ LastError.kind = "NAVIGATOR_FATAL"

----------------------------------------------------------------------------
(* Claims about the sequencing of execute() (checked under Spec) *)

IsPrefix(s, t) == Len(s) <= Len(t) /\ \A i \in DOMAIN s : s[i] = t[i]
Count(seq, e) == Cardinality({i \in DOMAIN seq : seq[i] = e})

\* The steps of a call with a target, in the order the claim gives them and in
\* the order of the try block of execute().
ClaimedStepOrder == <<"LOCATE", "FP_PRE", "ACT", "SETTLE", "FP_POST", "CLASSIFY">>
StepOrder == <<"FP_PRE", "LOCATE", "ACT", "SETTLE", "FP_POST", "CLASSIFY">>

\* C11 as stated: the steps of a call occur in the order locate, capture
\* before, act, settle, capture after, classify; no fingerprint is captured
\* before the target has been located.
C11_LocateBeforeCapture == xpath # NULL => IsPrefix(events, ClaimedStepOrder)

\* C11 amended: the steps of a call occur in the order capture before, locate,
\* act, settle, capture after, classify; the before fingerprint is captured
\* before the lookup, the after fingerprint never before the settle delay.
C11_CaptureBeforeLocate == xpath # NULL => IsPrefix(events, StepOrder)

\* C11 witness: a call went through all six steps and returned.
C11_Witness == TargetCallOver /\ events = StepOrder

\* Steps of the typing engine that were started, in order.
TypingSteps == [i \in DOMAIN attempts |-> attempts[i].step]

\* C12: every TYPE action runs character typing, then the forced value and
\* event dispatch, then the Enter key, whether or not an earlier step failed.
C12_AllTypingStepsRun ==
    (action = "TYPE" /\ attempts # <<>>) =>
        \E i, j, k \in DOMAIN attempts :
            /\ i < j /\ j < k
            /\ TypingSteps[i] = "TYPE"
            /\ TypingSteps[j] = "HAMMER"
            /\ TypingSteps[k] = "ENTER"

\* A reinforcement step (event-dispatch script, Enter press) raised.
ReinforcementFailed ==
    /\ action = "TYPE"
    /\ \E i \in DOMAIN attempts :
           attempts[i].step \in {"HAMMER", "ENTER"} /\ attempts[i].raised

\* C13: a failure of typing step 2 or 3 does not leave the typing engine: the
\* call goes on to the settle delay and the after fingerprint, and returns a
\* classified result, never a crash.
C13_ReinforcementSwallowed ==
    ReinforcementFailed =>
        /\ ~raised
        /\ pc \in {"settle", "fp_post", "idle"}
        /\ pc = "idle" =>
             /\ events = StepOrder
             /\ post_state # Unset
             /\ impact = CalculateDelta(pre_state, post_state)
             /\ LastHistory = HistoryResult("TYPE", xpath, impact)

\* C13 witness: the event-dispatch script raised and the call returned a
\* classified result.
C13_Witness ==
    /\ TargetCallOver
    /\ action = "TYPE"
    /\ \E i \in DOMAIN attempts : attempts[i].step = "HAMMER" /\ attempts[i].raised
    /\ LastHistory.kind = "RESULT"

\* A capture of the running call failed.
CaptureFailed ==
    \/ pre_state # Unset /\ GetError(pre_state)
    \/ post_state # Unset /\ GetError(post_state)

\* C14: a failed fingerprint capture does not raise; once both captures are
\* made the outcome is UNKNOWN_STATE whatever the other fingerprint holds, and
\* the call returns its state with that outcome recorded.
C14_CaptureFailureIsUnknown ==
    CaptureFailed =>
        /\ ~raised
        /\ pc # "fp_pre"
        /\ (pc = "idle" /\ LastHistory.kind = "CRASH") => TerminalFailure
        /\ (pc = "idle" /\ post_state # Unset) =>
             /\ impact = "UNKNOWN_STATE"
             /\ LastHistory = HistoryResult(action, xpath, "UNKNOWN_STATE")
             /\ state.last_action_impact = "UNKNOWN_STATE"
             /\ state.status = "PLANNING"
             /\ returns = calls

\* C14 witness: the page navigated during the settle delay and the after
\* capture failed on it; the call returned.
C14_Witness ==
    /\ TargetCallOver
    /\ post_state # Unset
    /\ ~GetError(pre_state)
    /\ GetError(post_state)
    /\ post_state.url # pre_state.url
    /\ impact = "UNKNOWN_STATE"

C16_LocateNeverRaises ==
    LookupDone =>
        /\ ~raised
        /\ pc \in {"idle", "act"}
        /\ pc = "idle" => LastHistory = HistoryFailed(xpath)
        /\ (\A i \in DOMAIN searched : ~Produced(searched[i])) =>
             /\ element = NoElement
             /\ pc = "idle"
             /\ LastHistory = HistoryFailed(xpath)
             /\ LastError = ErrLookupFailed(xpath)
             /\ returns = calls

\* C16 witness: the main query and the shadow scan both threw; the call
\* returned the acquisition failure.
C16_Witness ==
    /\ LookupDone
    /\ threw = {MainQuery, ShadowQuery}
    /\ matches # {}
    /\ element = NoElement
    /\ LastHistory.kind = "FAILED"

----------------------------------------------------------------------------
(* Claims about the forensic audit (checked under SpecMission) *)

\* execute() recorded a failure on x in the history.
FailureRecorded(x) ==
    \E i \in DOMAIN state.history_steps :
        LET h == state.history_steps[i]
        IN  /\ h.xpath = x
            /\ \/ h.kind \in {"FAILED", "CRASH"}
               \/ h.kind = "RESULT" /\ h.detail = "NO_CHANGE"

\* The last plan() call ran its forensic audit, and on the whole history.
AuditedAll == plan_outcome.audited = Len(state.history_steps)

\* C17: once a plan() call has run its forensic audit over a history in which
\* execute() recorded a failure on xpath X, exactly the failed xpaths are
\* banned, check_toxicity(X) holds and a plan that targets X is vetoed.
C17_FailureBansTarget ==
    \A x \in XPATHS :
        (FailureRecorded(x) /\ AuditedAll) =>
            /\ state.hard_blacklist.xpaths = {y \in XPATHS : FailureRecorded(y)}
            /\ CheckToxicity(state.hard_blacklist, x)
            /\ plan_outcome.target = x => plan_outcome.branch = "veto"

----------------------------------------------------------------------------
(* Claims about the swarm (checked under SpecSwarm) *)

\* C18: the number of agents deployed and not yet released never exceeds
\* MAX_CONCURRENCY; together with the free permits (and the permit the
\* orchestrator holds for the agent it is about to create) it is exactly
\* MAX_CONCURRENCY.
C18_ConcurrencyBound ==
    /\ \A w \in DOMAIN workers : workers[w] \in AgentStages
    /\ Cardinality(Deployed) <= MAX_CONCURRENCY
    /\ semaphore >= 0
    /\ Cardinality(Deployed) + semaphore + (IF opc = "acquired" THEN 1 ELSE 0)
           = MAX_CONCURRENCY

\* C18 witness: an agent has completed, MAX_CONCURRENCY agents are deployed,
\* and the orchestrator waits for a permit with a task still queued.
C18_Witness ==
    /\ Cardinality(Deployed) = MAX_CONCURRENCY
    /\ \E w \in DOMAIN workers : workers[w] = "released"
    /\ queue > 0
    /\ opc = "loop"
    /\ semaphore = 0

----------------------------------------------------------------------------
(* Claims about the blacklist registry (checked under SpecRegistry) *)

\* The xpath a log entry names.
EntryXPath(e) == IF e.kind \in {"LOOKUP_FAILED", "NO_CHANGE"} THEN e.detail ELSE e.xpath

\* Entries register_failure extracts an xpath from, and whose xpath lies
\* under the container c.
FailuresUnder(c) ==
    {i \in DOMAIN processed :
        /\ ExtractTarget(processed[i]) # NULL
        /\ BodyContainer(EntryXPath(processed[i])) = c}

BodyContainers == {BodyContainer(x) : x \in RegistryXPaths} \ {NULL}

----------------------------------------------------------------------------
(* Claims about the validator (checked under SpecArchitect) *)

\* A plan() call that reached its validator has just returned.
Validated == plan_outcome'.n = plan_outcome.n + 1 /\ plan_outcome'.branch \in {"veto", "commit"}

\* The target the plan named is toxic under the registry as the audit of
\* the same call left it.
PlannedTargetToxic ==
    /\ plan_outcome'.target # NULL
    /\ CheckToxicity(state'.hard_blacklist, plan_outcome'.target)

\* C22: plan() never commits a NAVIGATE decision on a target that is toxic
\* under the registry at that moment: while the status is NAVIGATING the
\* committed target is not toxic, and a plan naming a toxic target is
\* vetoed (the veto is appended to error_log, semantic_map stays as it was
\* and the status becomes ANALYZING).
C22_ToxicNeverCommitted ==
    /\ [](state.status = "NAVIGATING" =>
             ~CheckToxicity(state.hard_blacklist, state.semantic_map.target_xpath))
    /\ [][(Validated /\ PlannedTargetToxic) =>
             /\ plan_outcome'.branch = "veto"
             /\ state'.error_log =
                    Append(state.error_log,
                           ErrVeto("Safety Veto: "
                                   \o ToxicityReason(state'.hard_blacklist,
                                                     plan_outcome'.target)))
             /\ state'.semantic_map = state.semantic_map
             /\ state'.status = "ANALYZING"]_vars

\* A plan naming the target of the earlier, failed navigation is vetoed
\* once its container is quarantined; the earlier commit stays in the map.
C22_Witness ==
    /\ plan_outcome.branch = "veto"
    /\ plan_outcome.target \in XPATHS
    /\ CheckToxicity(state.hard_blacklist, plan_outcome.target)
    /\ state.semantic_map.target_xpath = plan_outcome.target
    /\ state.status = "ANALYZING"
    /\ Last(state.error_log).kind = "ARCHITECT_VETO"

----------------------------------------------------------------------------
(* Claims about the parser (checked under SpecParser) *)

ParserDone == parsed # Unset

\* The reply is a valid JSON object, possibly inside fences and prose.
WrappedObject == raw_response.body = "OBJECT" /\ raw_response.tail # "braces"

\* C23: extract_plan never raises and always returns a plan (a dict with
\* the plan keys): the result of the first strategy that succeeds, so that
\* a valid JSON object wrapped in prose or fences is recovered, and the safe
\* re-scan plan (ANALYZE_DOM, no target) when no strategy succeeds.
C23_AlwaysReturnsPlan ==
    ParserDone =>
        /\ ~parsed.raised
        /\ parsed.value.type = "dict"
        /\ (WrappedObject => parsed.value = PlanObject)
        /\ (parsed.strategy = 4 => parsed.value = SafeRescanPlan)

----------------------------------------------------------------------------
(* Claims about concurrent sessions (checked under SpecSessions) *)

\* A step of worker k's execute() call: the call is entered or returns.
ExecuteStepOf(k) == (k \in in_flight) # (k \in in_flight')

\* C24: an execute() call of one mission changes only that mission's own
\* state: the history, error log, status and blacklist of every other
\* mission are the same after each of its steps, however the calls of the
\* missions interleave.
C24_SessionsIndependent ==
    [][\A k \in Sessions : \A m \in Sessions \ {k} :
          ExecuteStepOf(k) =>
              /\ missions'[m].history_steps = missions[m].history_steps
              /\ missions'[m].error_log = missions[m].error_log
              /\ missions'[m].status = missions[m].status
              /\ missions'[m].hard_blacklist = missions[m].hard_blacklist]_vars

\* The call of worker 1 has returned with a history entry while the call of
\* worker 2, entered before, is still in flight on its untouched state.
C24_Witness ==
    /\ missions[1].history_steps # <<>>
    /\ 1 \notin in_flight
    /\ 2 \in in_flight
    /\ missions[2].history_steps = <<>>
    /\ missions[2].error_log = <<>>
    /\ missions[2].status = "NAVIGATING"

----------------------------------------------------------------------------
(* Claims about the score (checked under SpecScore) *)

\* C25: calculate_drishti_score returns an integer between 0 and 100
\* inclusive, whatever the violations, the numbers of JS errors and
\* trackers, the load time and the flags.
C25_ScoreInRange ==
    drishti_score # Unset =>
        drishti_score.value \in Int /\ drishti_score.value \in 0..100

\* The penalties add up to more than 100 and the score is clamped to 0.
C25_Witness ==
    /\ drishti_score # Unset
    /\ RawScoreTenths(score_args) < 0
    /\ drishti_score.value = 0

----------------------------------------------------------------------------
(* Claims about the LocalAI singleton (checked under SpecSingleton) *)

LazyFieldsKept ==
    /\ ai.mpnet = "loaded" => ai'.mpnet = "loaded"
    /\ ai.llm_reasoning = "loaded" => ai'.llm_reasoning = "loaded"

\* C26: threads that construct LocalAI concurrently all obtain the same
\* instance, the body of __init__ runs exactly once, and a lazily loaded
\* field, once set by a thread, is never reset by a construction.
C26_SingletonInitialisedOnce ==
    /\ [](/\ ai.instances <= 1
          /\ \A t \in Threads :
                /\ threads[t].obtained \in {0, 1}
                /\ threads[t].pc \in {"init", "body", "flag", "done"}
                      => threads[t].obtained = 1
                /\ threads[t].pc = "done" => ai.init_runs = 1
          /\ ai.init_runs <= 1)
    /\ [][LazyFieldsKept]_vars

\* C26 witness: a thread loaded a lazy field and holds the instance while two
\* other threads are inside their constructor call at the same time.
C26_Witness ==
    \E t \in Threads \ {Importer} :
        /\ threads[t].pc = "done"
        /\ threads[t].obtained = 1
        /\ ai.mpnet = "loaded"
        /\ ai.init_runs = 1
        /\ \E u \in Threads \ {Importer, t} : \E w \in Threads \ {Importer, t, u} :
              /\ threads[u].pc = "init"
              /\ threads[w].pc = "init"

----------------------------------------------------------------------------
(* Claims about the batch runner (checked under SpecBatch) *)

\* The URLs the state file recorded as completed when the run at hand (or the
\* last run) loaded it.
CompletedAtLoad == Range(SubSeq(batch.state.completed, 1, batch.done))

\* C27: no scout process is spawned, in a run, for a URL that the saved
\* batch state recorded as completed when the run began.
C27_CompletedNeverSpawned ==
    \A k \in 1..Len(spawned) : spawned[k].url \notin CompletedAtLoad

\* C27 witness: a resumed run skipped a listed URL recorded as completed and
\* spawned a scout for another one.
C27_Witness ==
    /\ batch.pc = "idle"
    /\ Len(spawned) > 0
    /\ \E k \in 1..Len(targets) : targets[k] \in CompletedAtLoad

SpawnsOf(i) == {k \in 1..Len(spawned) : spawned[k].task = i}

----------------------------------------------------------------------------
(* Claims about the Scroll intent (checked under Spec) *)

\* C29: a SCROLL intent whose target was located is executed by the action
\* stage: when the call reaches the settle delay the stage has emitted wheel
\* events and has not refused the action.
C29_ScrollExecuted ==
    (action = "SCROLL" /\ pc = "settle") =>
        /\ \E i \in DOMAIN attempts : attempts[i].step = "WHEEL"
        /\ state.error_log = <<>> \/ LastError # ErrNotImplemented("SCROLL")

----------------------------------------------------------------------------
(* Claims about the bookkeeping of execute() (checked under Spec) *)

CallInFlight == pc # "idle"
CallEnters == pc = "idle" /\ calls' = calls + 1
CallReturns == returns' = returns + 1

\* What a call with a target leaves in history_steps: nothing before it
\* returns, and exactly one entry when it returns: FAILED when the lookup
\* found nothing, the result with the classified impact after the second
\* fingerprint, CRASH from the exception handler. It returns with PLANNING.
OneEntryPerTargetCall ==
    /\ (CallEnters /\ state.semantic_map.target_xpath # NULL /\ ~IsColdStart) =>
            state'.history_steps = state.history_steps
    /\ (CallInFlight /\ ~CallReturns) =>
            state'.history_steps = state.history_steps
    /\ (CallInFlight /\ CallReturns) =>
            /\ Len(state'.history_steps) = Len(state.history_steps) + 1
            /\ SubSeq(state'.history_steps, 1, Len(state.history_steps))
                  = state.history_steps
            /\ state'.status = "PLANNING"
            /\ LET e == Last(state'.history_steps)
               IN  /\ e.xpath = xpath
                   /\ \/ e.kind = "FAILED" /\ pc = "locate" /\ element' = NoElement
                      \/ e.kind = "CRASH"
                      \/ /\ e = HistoryResult(action, xpath, impact')
                         /\ pc = "fp_post"
                         /\ state'.last_action_impact = impact'

NullXPathCall == CallEnters /\ state.semantic_map.target_xpath = NULL

\* C31 as claimed: every call with a target appends exactly one history entry
\* and returns with PLANNING, and a call with a null xpath appends nothing to
\* history_steps or error_log.
C31_OneEntryOrNone ==
    [][/\ OneEntryPerTargetCall
       /\ NullXPathCall =>
             /\ state'.history_steps = state.history_steps
             /\ state'.error_log = state.error_log]_vars

\* C31 as amended: the same, except that a call with a null xpath that is a
\* cold start whose navigation fails appends "Initial Nav Failed" to
\* error_log (and returns with FAILED).
C31_OneEntryOrNoneButColdStart ==
    [][/\ OneEntryPerTargetCall
       /\ NullXPathCall =>
             /\ state'.history_steps = state.history_steps
             /\ \/ state'.error_log = state.error_log
                \/ /\ IsColdStart
                   /\ state'.status = "FAILED"
                   /\ \E msg \in PlaywrightErrors :
                         state'.error_log = Append(state.error_log, ErrInitialNav(msg))
             /\ ~IsColdStart =>
                   /\ state'.error_log = state.error_log
                   /\ state'.status = "PLANNING"]_vars

\* C31 witness: a call with a target returned with one result entry, which
\* carries the impact the call classified.
C31_Witness ==
    /\ pc = "idle"
    /\ returns = 1
    /\ xpath # NULL
    /\ Len(state.history_steps) = 1
    /\ LastHistory = HistoryResult(action, xpath, impact)
    /\ impact = "NO_CHANGE"
    /\ state.status = "PLANNING"


----------------------------------------------------------------------------
(* Claims about the loop of the worker (checked under SpecHive) *)

\* C32: in an iteration whose plan() call committed a NAVIGATE decision
\* (status NAVIGATING, target and action type in semantic_map) the worker
\* calls execute() instead of idling.
C32_CommitIsExecuted ==
    (/\ hive.acted # "none"
     /\ plan_outcome.branch = "commit"
     /\ state.status = "NAVIGATING"
     /\ state.semantic_map.target_xpath # NULL) => hive.acted = "execute"

\* C33: a mission whose plan() was sent back by the context-integrity check
\* and was planned again afterwards does not run out of its step budget
\* without one plan() call getting past that check.
C33_FractureRecovers ==
    (hive.exit = "budget" /\ hive.fractured > 0 /\ hive.later > 0) => hive.recovered

----------------------------------------------------------------------------
(* Claims about the registry across plan() calls (checked under SpecArchitect) *)

\* The element xpaths under container c for which the registry holds a ban.
FailedXPathsUnder(bl, c) ==
    {b \in RegistryXPaths : BodyContainer(b) = c /\ ExtractedForms(b) \cap bl.xpaths # {}}

\* The failing entries of the logs of s that name an xpath under container c.
FailingEntriesUnder(s, c) ==
    LET log == s.history_steps \o s.error_log
    IN  {i \in 1..Len(log) :
            /\ AuditMarked(log[i])
            /\ ExtractTarget(log[i]) # NULL
            /\ ContainerOf(ExtractTarget(log[i])) = c}

\* C34: a container is in quarantine only when two distinct element xpaths
\* under it have registered failures, and a container's failure count never
\* exceeds the number of failing log entries under it (an entry audited again
\* by a later plan() call is not counted again).
C34_QuarantineNeedsTwoXPaths ==
    LET bl == state.hard_blacklist
    IN  bl # NoBlacklist =>
          /\ \A c \in bl.quarantine : Cardinality(FailedXPathsUnder(bl, c)) >= 2
          /\ \A c \in DOMAIN bl.containers :
                bl.containers[c] <= Cardinality(FailingEntriesUnder(state, c))

\* The mission since its last url change: the last history entry is the
\* action that changed the url (only such a call is labelled URL_NAVIGATED),
\* so execute() has not run since, and the architect has seen the new url
\* (last_known_url was the old one, so the plan() call that set it took the
\* drift branch and purged the registry).
PurgedAndNoActionSince ==
    /\ state.history_steps # <<>>
    /\ LastHistory.kind = "RESULT"
    /\ LastHistory.detail = "URL_NAVIGATED"
    /\ last_known_url = state.current_url
    /\ plan_outcome.branch \notin {"none", "victory"}

\* C35: after the purge of the registry on a url change, as long as no new
\* failure is recorded, no xpath is toxic, whatever number of plan() calls
\* were made since (the failures in the logs are all from before the change).
C35_PurgedStaysClean ==
    PurgedAndNoActionSince
        => \A x \in XPATHS : ~CheckToxicity(state.hard_blacklist, x)

----------------------------------------------------------------------------
(* The thresholds of the classifier (checked under SpecDelta) *)

NodeCountDiff ==
    IF post_state.node_count >= pre_state.node_count
    THEN post_state.node_count - pre_state.node_count
    ELSE pre_state.node_count - post_state.node_count

TextLenDiff ==
    IF post_state.text_len >= pre_state.text_len
    THEN post_state.text_len - pre_state.text_len
    ELSE pre_state.text_len - post_state.text_len

\* C36: with both fingerprints captured and url, visible inputs and title
\* unchanged, a node-count difference of at most 5 never gives DOM_MUTATED, a
\* text-length difference of at most 20 never gives CONTENT_UPDATED, and a
\* node-count difference of 6 or more gives DOM_MUTATED whatever the
\* text-length difference.
C36_ThresholdBoundary ==
    (Classified /\ BothCaptured /\ SameUrl /\ SameInputs /\ SameTitle) =>
        /\ NodeCountDiff <= 5 => impact # "DOM_MUTATED"
        /\ TextLenDiff <= 20 => impact # "CONTENT_UPDATED"
        /\ NodeCountDiff >= 6 => impact = "DOM_MUTATED"

\* C36 witness: the node count fell by exactly 5 and the text grew by exactly
\* 20, and the pair is classified NO_CHANGE.
C36_Witness ==
    /\ Classified /\ BothCaptured /\ SameUrl /\ SameInputs /\ SameTitle
    /\ pre_state.node_count - post_state.node_count = 5
    /\ post_state.text_len - pre_state.text_len = 20
    /\ impact = "NO_CHANGE"

====
